---- MODULE Spec2Model ----
(***************************************************************************)
(* Model of the MCP <-> A2A gateway (package mcp_a2a_gateway): the agent   *)
(* directory (AgentManager), the task table (TaskManager.tasks), the       *)
(* send_message race against IMMEDIATE_RESPONSE_TIMEOUT, its background    *)
(* continuation, the polling loop, get_task_result, cancel_task and the    *)
(* unregister_agent tool.  Every await of a remote call is a suspension    *)
(* point: the code before it and the code after it are separate actions.   *)
(* So is the exit of an `async with httpx.AsyncClient` block after which    *)
(* the call still reads or writes the table, and the yield of a generator. *)
(* Spec interleaves the task manager's methods and the tools on one task;  *)
(* StoreSpec and ListSpec run the directory tools and the listing tool on  *)
(* the directory and the table that load_all_data reads at start-up;       *)
(* LoadSpec starts up on arbitrary data files; SendSpec runs several       *)
(* send_message calls; StreamSpec runs send_message_stream next to         *)
(* get_task_result and cancel_task.                                        *)
(***************************************************************************)
EXTENDS Integers, Sequences, FiniteSets, TLC

\* ---------------------------------------------------------------- bounds
MaxTasks == 1          \* number of send_message calls that reach uuid4()
MaxTime == 1           \* the wall clock is observed in 0..MaxTime
MaxCalls == 1          \* concurrent calls of one operation for one task or URL
MaxPending == 2        \* calls that are suspended at the same time
MaxStored == 2         \* task records in the file read by load_all_data
MaxSends == 2          \* send_message calls in SendSpec
MaxEvents == 2         \* events the agent sends on one stream

\* ------------------------------------------------------- input universes
AgentUrls == {"http://a"}
MessageTexts == {"hi"}

None == "None"                     \* Python None where a str is optional
NoResult == [none |-> TRUE]        \* Python None where a dict is optional
NoRet == [none |-> TRUE]           \* no value returned by the step

\* AgentCard.name of the card resolved for a URL
CardName(url) == "card of " \o url

\* uuid.uuid4(): a fresh identifier for each call
Uuid4(n) == "g" \o ToString(n)
GatewayIds == {Uuid4(n) : n \in 1..MaxTasks}

\* ------------------------------------------------------ remote replies
\* a2a Part: a TextPart carries text, any other part does not
TextPart(s) == [is_text |-> TRUE, text |-> s]
DataPart == [is_text |-> FALSE, text |-> ""]

\* One record shape for every reply of the remote agent:
\*   shape "message": SendMessageSuccessResponse whose result is a Message
\*   shape "task"   : a success response whose result is a Task
\*   shape "error"  : JSONRPCErrorResponse
\*   shape "other"  : a root of any other type
\*   shape "raise"  : the client call raised (transport failure)
MessageReply(parts) ==
    [shape |-> "message", parts |-> parts, id |-> "", state |-> "",
     has_message |-> FALSE, contextId |-> None, code |-> 0, message |-> ""]
TaskReply(id, state, has_message, parts) ==
    [shape |-> "task", parts |-> parts, id |-> id, state |-> state,
     has_message |-> has_message, contextId |-> "ctx", code |-> 0,
     message |-> ""]
ErrorReply(code, message) ==
    [shape |-> "error", parts |-> <<>>, id |-> "", state |-> "",
     has_message |-> FALSE, contextId |-> None, code |-> code,
     message |-> message]
OtherReply ==
    [shape |-> "other", parts |-> <<>>, id |-> "", state |-> "",
     has_message |-> FALSE, contextId |-> None, code |-> 0, message |-> ""]
RaiseReply(text) ==
    [shape |-> "raise", parts |-> <<>>, id |-> "", state |-> "",
     has_message |-> FALSE, contextId |-> None, code |-> 0, message |-> text]
NoReply ==
    [shape |-> "none", parts |-> <<>>, id |-> "", state |-> "",
     has_message |-> FALSE, contextId |-> None, code |-> 0, message |-> ""]

SendReplies ==
    { MessageReply(<<TextPart("hello")>>),
      MessageReply(<<TextPart("done"), DataPart, TextPart("ok")>>),
      TaskReply("r1", "working", FALSE, <<>>),
      TaskReply("", "completed", TRUE, <<TextPart("fin")>>),
      ErrorReply(-32000, "boom"),
      OtherReply,
      RaiseReply("connect failed") }

\* what the agent may answer to a send after the gateway stopped waiting
LateReplies ==
    { MessageReply(<<TextPart("done"), DataPart, TextPart("ok")>>),
      TaskReply("r1", "working", FALSE, <<>>),
      ErrorReply(-32000, "boom"),
      RaiseReply("connect failed") }

ProbeReplies ==
    { TaskReply("r1", "working", TRUE, <<>>),
      TaskReply("r1", "completed", TRUE, <<TextPart("fin")>>),
      TaskReply("r1", "failed", FALSE, <<>>),
      ErrorReply(-32001, "Task not found"),
      ErrorReply(-32000, "boom"),
      OtherReply,
      RaiseReply("read failed") }

CancelReplies ==
    { TaskReply("r1", "canceled", FALSE, <<>>),
      ErrorReply(-32002, "cannot cancel"),
      OtherReply,
      RaiseReply("read failed") }

\* `"not found" in error.message.lower()` on the error messages above
NotFoundIn(message) == message = "Task not found"

\* ------------------------------------------------------------- helpers
\* JoinText without the isinstance filter: every part contributes a text
RECURSIVE JoinEveryPart(_)
JoinEveryPart(parts) ==
    IF parts = <<>> THEN ""
    ELSE IF Len(parts) = 1 THEN Head(parts).text
    ELSE Head(parts).text \o " " \o JoinEveryPart(Tail(parts))

\* " ".join(p.root.text for p in parts if isinstance(p.root, TextPart))
RECURSIVE JoinText(_)
JoinText(parts) ==
    IF parts = <<>> THEN ""
    ELSE LET rest == JoinText(Tail(parts))
             restHasText == \E i \in 2..Len(parts) : parts[i].is_text
         IN IF ~Head(parts).is_text THEN rest
            ELSE IF restHasText THEN Head(parts).text \o " " \o rest
            ELSE Head(parts).text

\* FinalStates with "cancelled" left out of the list
FinalStatesWithoutCancelled == {"completed", "error"}

\* FinalStates with "completed" left out of the list
FinalStatesWithoutCompleted == {"error", "cancelled"}

\* the literal list ["completed", "error", "cancelled"] of the final checks
FinalStates == {"completed", "error", "cancelled"}

\* format_task_response(task); the Task replies above carry no artifacts
format_task_response(task) ==
    [request_status |-> "success",
     session_id |-> task.contextId,
     state |-> task.state,
     message |-> IF task.has_message /\ task.parts # <<>>
                 THEN JoinText(task.parts) ELSE None,
     artifacts |-> <<>>]

\* StoredTask(...) with both timestamps taken from the clock
StoredTask(task_id, agent_task_id, agent_url, agent_name, request_message, status, result, clock) ==
    [agent_task_id |-> agent_task_id, task_id |-> task_id,
     agent_url |-> agent_url, agent_name |-> agent_name,
     request_message |-> request_message, status |-> status,
     result |-> result, created_at |-> clock, updated_at |-> clock]

\* update_status that starts from a record without its agent_task_id
UpdateStatusDropsAgentId(task, status, result, clock) ==
    [task EXCEPT !.agent_task_id = None,
                 !.status = status,
                 !.result = IF result # NoResult THEN result ELSE @,
                 !.updated_at = clock]

\* update_status that stamps created_at as well
UpdateStatusStampsCreatedAt(task, status, result, clock) ==
    [task EXCEPT !.status = status,
                 !.result = IF result # NoResult THEN result ELSE @,
                 !.created_at = clock,
                 !.updated_at = clock]

\* update_status that leaves updated_at as it was
UpdateStatusKeepsTimestamp(task, status, result, clock) ==
    [task EXCEPT !.status = status,
                 !.result = IF result # NoResult THEN result ELSE @]

\* update_status that ignores the result it is given
UpdateStatusWithoutResult(task, status, result, clock) ==
    [task EXCEPT !.status = status, !.updated_at = clock]

\* StoredTask.update_status(status, result)
update_status(task, status, result, clock) ==
    [task EXCEPT !.status = status,
                 !.result = IF result # NoResult THEN result ELSE @,
                 !.updated_at = clock]

\* datetime serialised by model_dump(mode="json")
IsoFormat(t) == "T" \o ToString(t)

\* StoredTask.model_dump(mode="json")
model_dump(task) ==
    [task EXCEPT !.created_at = IsoFormat(@), !.updated_at = IsoFormat(@)]

\* ---------------------------------------------------------------- state
VARIABLES
    registered_agents,  \* AgentManager.registered_agents: sequence of
                        \* [url, name] in dict (insertion) order
    task_keys,          \* keys of TaskManager.tasks, in dict order
    heap,               \* the StoredTask object created under each gateway id
    sends,              \* send_message calls: gateway id -> call record
    probes,             \* get_task_result calls awaiting client.get_task or
                        \* the exit of their `async with` block
    cancels,            \* cancel_task calls awaiting client.cancel_task or
                        \* the exit of their `async with` block
    calls,              \* register_agent and unregister_agent tool calls
                        \* awaiting ctx.info or ctx.error, each with the
                        \* value it returns
    bg,                 \* asyncio tasks created for background work -> pc
    background_tasks,   \* TaskManager._background_tasks
    now,                \* datetime.now(timezone.utc)
    ev                  \* what the last step did, as its caller observes it

vars == <<registered_agents, task_keys, heap, sends, probes, cancels, calls,
          bg, background_tasks, now, ev>>

SeqRange(s) == {s[i] : i \in 1..Len(s)}
RegisteredUrls == {registered_agents[i].url : i \in 1..Len(registered_agents)}

\* AgentManager.get_agent(url): the entry, or None
get_agent(url) ==
    IF url \in RegisteredUrls
    THEN (CHOOSE a \in SeqRange(registered_agents) : a.url = url)
    ELSE [url |-> None, name |-> None]

\* AgentManager.list_agents_with_url(): the (url, AgentInfo) pairs in dict
\* order
list_agents_with_url ==
    [i \in 1..Len(registered_agents) |->
        <<registered_agents[i].url, [card |-> registered_agents[i].name]>>]

\* TaskManager.tasks as a mapping gateway id -> StoredTask
tasks == [id \in SeqRange(task_keys) |-> heap[id]]

\* TaskManager.get_task(task_id) is not None
HasTask(id) == id \in SeqRange(task_keys)

\* heap[id] is the StoredTask object that was stored last under the gateway
\* id. When _process_agent_response stores a second object under an id whose
\* first object left the table but is still the `stored_task` of a suspended
\* get_task_result or cancel_task call, the first object lives on under this
\* key
Replaced(id) == id \o "~"

\* Reference counting: a StoredTask object that is neither in the table nor
\* held by a suspended get_task_result or cancel_task call is freed
Collect(objects, keys, ps, cs) ==
    LET live == SeqRange(keys) \cup {p.obj : p \in ps} \cup {c.obj : c \in cs}
    IN [id \in DOMAIN objects \cap live |-> objects[id]]

\* the suspended calls `held` after a step of _process_agent_response for
\* `id`: a call whose `stored_task` is the object that the step replaced in
\* the table goes on holding that object
StillHolding(held, id, replaced) ==
    {IF replaced /\ c.obj = id THEN [c EXCEPT !.obj = Replaced(id)] ELSE c :
       c \in held}

\* the calls that are suspended: tool calls awaiting ctx.info,
\* get_task_result calls (the polling loop's included) and cancel_task calls,
\* send_message and send_message_stream calls
Pending ==
    Cardinality(calls) + Cardinality(probes)
    + Cardinality(cancels)
    + Cardinality({id \in DOMAIN sends :
                     sends[id].pc \in {"wait_for", "exit", "stream", "yielded",
                                       "exit_raise"}})


WaitUnit(id) == [kind |-> "wait", id |-> id]
PollUnit(id) == [kind |-> "poll", id |-> id]

\* op: the operation; id: the gateway id or URL it was called with; kind:
\* "return", "raise", "await" (suspended on a remote call), "exit" (the
\* remote call is over, suspended on the exit of `async with`) or "step" (a
\* background unit ran); ret: the value returned or raised; arg: the remote
\* reply the step consumed
EventWith(op, id, kind, ret, arg) ==
    [op |-> op, id |-> id, kind |-> kind, ret |-> ret, arg |-> arg]
Event(op, id, kind, ret) == EventWith(op, id, kind, ret, NoReply)
Exception(type, message) == [exception |-> type, message |-> message]

Init ==
    /\ registered_agents = <<>>
    /\ task_keys = <<>>
    /\ heap = <<>>
    /\ sends = <<>>
    /\ probes = {}
    /\ cancels = {}
    /\ calls = {}
    /\ bg = <<>>
    /\ background_tasks = {}
    /\ now = 0
    /\ ev = Event("init", None, "return", NoRet)

\* the wall clock advances between two steps
Tick ==
    /\ now < MaxTime
    /\ now' = now + 1
    /\ ev' = Event("clock", None, "step", NoRet)
    /\ UNCHANGED <<registered_agents, task_keys, heap, sends, probes, cancels, calls,
                   bg, background_tasks>>

\* ------------------------------------------------------ agent directory
\* register_agent that gives up the entry of the URL when the fetch fails
RegisterAgentForgetsOnFailure(url, ok) ==
    LET info == [url |-> url, name |-> CardName(url)]
    IN IF ok
       THEN [raised |-> FALSE, value |-> info,
             agents |-> IF url \in RegisteredUrls
                        THEN [i \in 1..Len(registered_agents) |->
                                IF registered_agents[i].url = url THEN info
                                ELSE registered_agents[i]]
                        ELSE Append(registered_agents, info)]
       ELSE [raised |-> TRUE, value |-> Exception("Exception", "Fetch failed"),
             agents |-> SelectSeq(registered_agents, LAMBDA a : a.url # url)]

\* register_agent that takes the entry out before it stores the new card, so
\* that a URL registered again moves to the end of the directory
RegisterAgentMovesToEnd(url, ok) ==
    LET info == [url |-> url, name |-> CardName(url)]
    IN IF ok
       THEN [raised |-> FALSE, value |-> info,
             agents |-> Append(SelectSeq(registered_agents,
                                         LAMBDA a : a.url # url), info)]
       ELSE [raised |-> TRUE, value |-> Exception("Exception", "Fetch failed"),
             agents |-> registered_agents]

\* AgentManager.register_agent(url); `ok` is whether
\* A2ACardResolver.get_agent_card() returned a card: the directory after the
\* call and the value returned or raised
register_agent(url, ok) ==
    LET info == [url |-> url, name |-> CardName(url)]
    IN IF ok
       THEN [raised |-> FALSE, value |-> info,
             agents |-> IF url \in RegisteredUrls
                        THEN [i \in 1..Len(registered_agents) |->
                                IF registered_agents[i].url = url THEN info
                                ELSE registered_agents[i]]
                        ELSE Append(registered_agents, info)]
       ELSE [raised |-> TRUE, value |-> Exception("Exception", "Fetch failed"),
             agents |-> registered_agents]

\* the index that tells a new call apart from the calls in `S`, which run
\* the same coroutine function for the same task or URL
FreeIndex(S) ==
    CHOOSE k \in 1..(Cardinality(S) + 1) : \A c \in S : c.k # k

\* the calls of one tool for one URL that are suspended before their return
ToolCalls(op, url) == {c \in calls : c.op = op /\ c.id = url}

\* register_agent tool up to its `await ctx.info(...)`, or, when
\* AgentManager.register_agent raised, up to the `await ctx.error(...)` of the
\* except branch: the directory is written and the call is suspended
RegisterAgent(url, ok) ==
    /\ Cardinality(ToolCalls("register_agent", url)) < MaxCalls
    /\ Pending < MaxPending
    /\ LET r == register_agent(url, ok)
       IN /\ registered_agents' = r.agents
          /\ calls' = calls \cup
                {[op |-> "register_agent", id |-> url,
                  k |-> FreeIndex(ToolCalls("register_agent", url)),
                  ret |-> IF r.raised
                          THEN [status |-> "error", message |-> r.value.message]
                          ELSE [status |-> "success", agent |-> r.value]]}
          /\ ev' = Event("register_agent", url, "await", NoRet)
    /\ UNCHANGED <<task_keys, heap, sends, probes, cancels, bg,
                   background_tasks, now>>

\* ctx.info (ctx.error) has returned: the register_agent tool returns the
\* result it built from the card it registered
RegisterAgentReturn(c) ==
    /\ c \in calls
    /\ c.op = "register_agent"
    /\ calls' = calls \ {c}
    /\ ev' = Event("register_agent", c.id, "return", c.ret)
    /\ UNCHANGED <<registered_agents, task_keys, heap, sends, probes, cancels,
                   bg, background_tasks, now>>

\* remove_tasks_for_agent that deletes only the first record of the agent
RemoveFirstTaskForAgent(url) ==
    LET hits == {i \in 1..Len(task_keys) : heap[task_keys[i]].agent_url = url}
    IN IF hits = {} THEN task_keys
       ELSE LET first == CHOOSE i \in hits : \A j \in hits : i <= j
            IN SubSeq(task_keys, 1, first - 1)
               \o SubSeq(task_keys, first + 1, Len(task_keys))

\* TaskManager.remove_tasks_for_agent(url): the keys that stay
remove_tasks_for_agent(url) ==
    SelectSeq(task_keys, LAMBDA id : heap[id].agent_url # url)

\* unregister_agent that removes the tasks before it looks at the directory
UnregisterAgentRemovesFirst(url) ==
    /\ task_keys' = remove_tasks_for_agent(url)
    /\ IF url \in RegisteredUrls
       THEN /\ Cardinality(ToolCalls("unregister_agent", url)) < MaxCalls
            /\ Pending < MaxPending
            /\ registered_agents' =
                  SelectSeq(registered_agents, LAMBDA a : a.url # url)
            /\ calls' = calls \cup
                  {[op |-> "unregister_agent", id |-> url,
                    k |-> FreeIndex(ToolCalls("unregister_agent", url)),
                    ret |-> [status |-> "success",
                             unregistered_agent |-> get_agent(url).name,
                             removed_tasks |->
                                 Len(task_keys)
                                 - Len(remove_tasks_for_agent(url))]]}
            /\ ev' = Event("unregister_agent", url, "await", NoRet)
       ELSE /\ UNCHANGED <<registered_agents, calls>>
            /\ ev' = Event("unregister_agent", url, "return",
                           [status |-> "error",
                            message |-> "Agent not registered: " \o url])
    /\ heap' = Collect(heap, task_keys', probes, cancels)
    /\ UNCHANGED <<sends, probes, cancels, bg, background_tasks, now>>

\* unregister_agent tool: AgentManager.unregister_agent(url) and, for a
\* registered URL, TaskManager.remove_tasks_for_agent(url), up to the
\* `await ctx.info(...)` on which the call is suspended; a URL that is not
\* registered is answered at once
UnregisterAgent(url) ==
    /\ IF url \in RegisteredUrls
       THEN /\ Cardinality(ToolCalls("unregister_agent", url)) < MaxCalls
            /\ Pending < MaxPending
            /\ registered_agents' =
                  SelectSeq(registered_agents, LAMBDA a : a.url # url)
            /\ task_keys' = remove_tasks_for_agent(url)
            /\ calls' = calls \cup
                  {[op |-> "unregister_agent", id |-> url,
                    k |-> FreeIndex(ToolCalls("unregister_agent", url)),
                    ret |-> [status |-> "success",
                             unregistered_agent |-> get_agent(url).name,
                             removed_tasks |->
                                 Len(task_keys)
                                 - Len(remove_tasks_for_agent(url))]]}
            /\ ev' = Event("unregister_agent", url, "await", NoRet)
       ELSE /\ UNCHANGED <<registered_agents, task_keys, calls>>
            /\ ev' = Event("unregister_agent", url, "return",
                           [status |-> "error",
                            message |-> "Agent not registered: " \o url])
    /\ heap' = Collect(heap, task_keys', probes, cancels)
    /\ UNCHANGED <<sends, probes, cancels, bg, background_tasks, now>>

\* ctx.info has returned: the unregister_agent tool returns the name and the
\* count it took when it removed the entry and the records
UnregisterAgentReturn(c) ==
    /\ c \in calls
    /\ c.op = "unregister_agent"
    /\ calls' = calls \ {c}
    /\ ev' = Event("unregister_agent", c.id, "return", c.ret)
    /\ UNCHANGED <<registered_agents, task_keys, heap, sends, probes, cancels,
                   bg, background_tasks, now>>

\* ------------------------------------------------------------ send_message
\* send_message without the registration check: the send is started for any
\* URL
SendMessageWithoutCheck(url, text) ==
    /\ Cardinality(DOMAIN sends) < MaxTasks
    /\ Pending < MaxPending
    /\ LET id == Uuid4(Cardinality(DOMAIN sends) + 1)
       IN /\ sends' = (id :> [agent_url |-> url,
                              agent_name |-> get_agent(url).name,
                              message_text |-> text,
                              pc |-> "wait_for",
                              send_coro |-> "running",
                              response |-> NoReply,
                              dropped |-> NoReply,
                              timed_out |-> FALSE,
                              out |-> NoRet]) @@ sends
          /\ ev' = Event("send_message", id, "await", NoRet)
    /\ UNCHANGED <<registered_agents, task_keys, heap, probes, cancels, calls, bg,
                   background_tasks, now>>

\* TaskManager.send_message up to `await asyncio.wait_for(send_coro, ...)`,
\* for at most `limit` calls
SendMessageUpTo(limit, url, text) ==
    /\ IF url \notin RegisteredUrls
       THEN /\ ev' = Event("send_message", None, "raise",
                           Exception("ValueError", "Agent not registered: " \o url))
            /\ UNCHANGED sends
       ELSE /\ Cardinality(DOMAIN sends) < limit
            /\ Pending < MaxPending
            /\ LET id == Uuid4(Cardinality(DOMAIN sends) + 1)
               IN /\ sends' = (id :> [agent_url |-> url,
                                      agent_name |-> get_agent(url).name,
                                      message_text |-> text,
                                      pc |-> "wait_for",
                                      send_coro |-> "running",
                                      response |-> NoReply,
                                      dropped |-> NoReply,
                                      timed_out |-> FALSE,
                                      out |-> NoRet]) @@ sends
                  /\ ev' = Event("send_message", id, "await", NoRet)
    /\ UNCHANGED <<registered_agents, task_keys, heap, probes, cancels, calls, bg,
                   background_tasks, now>>

SendMessage(url, text) == SendMessageUpTo(MaxTasks, url, text)

\* _process_agent_response that files the record of a Task reply under the id
\* the agent assigned
ProcessAgentResponseRekeys(response, id, url, name, text) ==
    LET key == IF response.shape = "task" /\ response.id # ""
               THEN response.id ELSE id
        status == CASE response.shape = "message" -> "completed"
                    [] response.shape = "task" -> response.state
                    [] OTHER -> "error"
        result == CASE response.shape = "message" ->
                         [request_status |-> "success",
                          message |-> JoinText(response.parts)]
                    [] response.shape = "task" -> format_task_response(response)
                    [] OTHER ->
                         [request_status |-> "error",
                          message |-> "Agent Error: " \o response.message]
        table == (key :> StoredTask(id, key, url, name, text, status, result,
                                    now)) @@ heap
    IN IF response.shape = "other"
       THEN [keys |-> task_keys, heap |-> heap, poll |-> FALSE, raised |-> TRUE,
             replaced |-> FALSE,
             ret |-> Exception("TypeError", "Unexpected success response type")]
       ELSE [keys |-> IF key \in SeqRange(task_keys) THEN task_keys
                      ELSE Append(task_keys, key),
             heap |-> table, poll |-> response.shape = "task",
             raised |-> FALSE, replaced |-> FALSE,
             ret |-> model_dump(table[key])]

\* TaskManager._process_agent_response(response, gateway_task_id, agent_url,
\* agent_info, message_text) on the table (keys, objects): the new table,
\* whether a polling loop is created, whether a new object took the place of
\* one that suspended calls still hold, and the value returned or raised.
\* `self.tasks.get(gateway_task_id)` finds the record and updates it in
\* place, or finds none and a new StoredTask is created and stored
_process_agent_response(response, id, url, name, text) ==
    LET stored == HasTask(id)
        held == IF ~stored /\ id \in DOMAIN heap
                THEN (Replaced(id) :> heap[id]) ELSE <<>>
        put(status, agent_task_id, result) ==
            IF stored
            THEN [keys |-> task_keys,
                  heap |-> [heap EXCEPT ![id] =
                      update_status(
                          IF agent_task_id = None THEN @
                          ELSE [@ EXCEPT !.agent_task_id = agent_task_id],
                          status, result, now)]]
            ELSE [keys |-> Append(task_keys, id),
                  heap |-> (id :> StoredTask(id, agent_task_id, url, name, text,
                                             status, result, now))
                           @@ held @@ heap]
        out(table, poll) ==
            [keys |-> table.keys, heap |-> table.heap, poll |-> poll,
             raised |-> FALSE, replaced |-> held # <<>>,
             ret |-> model_dump(table.heap[id])]
    IN CASE response.shape = "message" ->
              out(put("completed", None,
                      [request_status |-> "success",
                       message |-> JoinText(response.parts)]), FALSE)
         [] response.shape = "task" ->
              out(put(response.state,
                      IF response.id # "" THEN response.id ELSE id,
                      format_task_response(response)), TRUE)
         [] response.shape = "error" ->
              out(put("error", None,
                      [request_status |-> "error",
                       message |-> "Agent Error: " \o response.message
                                   \o " (Code: " \o ToString(response.code)
                                   \o ")"]), FALSE)
         [] OTHER ->
              [keys |-> task_keys, heap |-> heap, poll |-> FALSE,
               raised |-> TRUE, replaced |-> FALSE,
               ret |-> Exception("TypeError", "Unexpected success response type")]

\* asyncio.create_task(coro) followed by _background_tasks.add(bg_task)
Spawn(units) == [u \in units |-> "ready"] @@ bg

\* what send_message hands to its caller once the `async with` block is left
Outcome(kind, ret, arg) == [kind |-> kind, ret |-> ret, arg |-> arg]

\* SendReply for a send whose reply is delivered and processed a second time
SendReplyAgain(id, response) ==
    /\ id \in DOMAIN sends
    /\ sends[id].pc \in {"wait_for", "returned"}
    /\ response \in SendReplies
    /\ IF response.shape = "raise"
       THEN /\ sends' = [sends EXCEPT
                           ![id].pc = "exit",
                           ![id].send_coro = "failed",
                           ![id].out = Outcome("raise",
                                Exception("Exception", response.message),
                                response)]
            /\ UNCHANGED <<task_keys, heap, probes, cancels, bg, background_tasks>>
       ELSE LET s == sends[id]
                r == _process_agent_response(response, id, s.agent_url,
                                             s.agent_name, s.message_text)
            IN /\ sends' = [sends EXCEPT
                              ![id].pc = "exit",
                              ![id].send_coro = "done",
                              ![id].out = Outcome(IF r.raised THEN "raise"
                                                  ELSE "return",
                                                  r.ret, response)]
               /\ task_keys' = r.keys
               /\ heap' = r.heap
               /\ probes' = StillHolding(probes, id, r.replaced)
               /\ cancels' = StillHolding(cancels, id, r.replaced)
               /\ bg' = IF r.poll THEN Spawn({PollUnit(id)}) ELSE bg
               /\ background_tasks' = IF r.poll
                                      THEN background_tasks \cup {PollUnit(id)}
                                      ELSE background_tasks
    /\ ev' = EventWith("send_message", id, "exit", NoRet, response)
    /\ UNCHANGED <<registered_agents, calls, now>>

\* the send call returns (or raises) before IMMEDIATE_RESPONSE_TIMEOUT:
\* wait_for hands the outcome to send_message, which processes it and is
\* suspended on the exit of its `async with` block before it returns or
\* raises
SendReply(id, response) ==
    /\ id \in DOMAIN sends
    /\ sends[id].pc = "wait_for"
    /\ response \in SendReplies
    /\ IF response.shape = "raise"
       THEN /\ sends' = [sends EXCEPT
                           ![id].pc = "exit",
                           ![id].send_coro = "failed",
                           ![id].out = Outcome("raise",
                                Exception("Exception", response.message),
                                response)]
            /\ UNCHANGED <<task_keys, heap, probes, cancels, bg, background_tasks>>
       ELSE LET s == sends[id]
                r == _process_agent_response(response, id, s.agent_url,
                                             s.agent_name, s.message_text)
            IN /\ sends' = [sends EXCEPT
                              ![id].pc = "exit",
                              ![id].send_coro = "done",
                              ![id].out = Outcome(IF r.raised THEN "raise"
                                                  ELSE "return",
                                                  r.ret, response)]
               /\ task_keys' = r.keys
               /\ heap' = r.heap
               /\ probes' = StillHolding(probes, id, r.replaced)
               /\ cancels' = StillHolding(cancels, id, r.replaced)
               /\ bg' = IF r.poll THEN Spawn({PollUnit(id)}) ELSE bg
               /\ background_tasks' = IF r.poll
                                      THEN background_tasks \cup {PollUnit(id)}
                                      ELSE background_tasks
    /\ ev' = EventWith("send_message", id, "exit", NoRet, response)
    /\ UNCHANGED <<registered_agents, calls, now>>

\* what is left of send_coro when wait_for raises TimeoutError: cancelled
\* while it was running, or, where wait_for is built on asyncio.timeout
\* (Python 3.12 and later) and the reply and the timer fall due in the same
\* iteration of the event loop, finished with the reply or the exception in
\* it
SendCoroAtTimeout(response) ==
    CASE response = NoReply -> "cancelled"
      [] response.shape = "raise" -> "failed"
      [] OTHER -> "done"

\* IMMEDIATE_RESPONSE_TIMEOUT elapses: asyncio.wait_for raises TimeoutError,
\* with send_coro cancelled (response is NoReply) or already finished;
\* send_message stores a pending record, creates the background continuation
\* and is suspended on the exit of its `async with` block before it returns
SendTimeout(id, response) ==
    /\ id \in DOMAIN sends
    /\ sends[id].pc = "wait_for"
    /\ response \in {NoReply} \cup SendReplies
    /\ LET s == sends[id]
           table == (id :> StoredTask(id, None, s.agent_url, s.agent_name,
                                      s.message_text, "pending", NoResult, now))
                    @@ heap
       IN /\ sends' = [sends EXCEPT
                         ![id].pc = "exit",
                         ![id].send_coro = SendCoroAtTimeout(response),
                         ![id].response = response,
                         ![id].timed_out = TRUE,
                         ![id].out = Outcome("return", model_dump(table[id]),
                                             NoReply)]
          /\ task_keys' = IF HasTask(id) THEN task_keys ELSE Append(task_keys, id)
          /\ heap' = table
          /\ bg' = Spawn({WaitUnit(id)})
          /\ background_tasks' = background_tasks \cup {WaitUnit(id)}
          /\ ev' = Event("send_message", id, "exit", NoRet)
    /\ UNCHANGED <<registered_agents, probes, cancels, calls, now>>

\* AsyncClient.__aexit__ has returned: send_message returns the dump it took
\* (or raises the exception it met) inside the block
SendMessageExit(id) ==
    /\ id \in DOMAIN sends
    /\ sends[id].pc = "exit"
    /\ sends[id].send_coro # "stream"
    /\ sends' = [sends EXCEPT
                   ![id].pc = IF sends[id].out.kind = "raise" THEN "raised"
                              ELSE "returned",
                   ![id].out = NoRet]
    /\ ev' = EventWith("send_message", id, sends[id].out.kind,
                       sends[id].out.ret, sends[id].out.arg)
    /\ UNCHANGED <<registered_agents, task_keys, heap, probes, cancels, calls,
                   bg, background_tasks, now>>

\* the remote agent answers a send whose call was cancelled at the timeout:
\* nobody is reading the connection any more
RemoteLateReply(id, response) ==
    /\ id \in DOMAIN sends
    /\ sends[id].send_coro = "cancelled"
    /\ sends[id].dropped = NoReply
    /\ response \in LateReplies
    /\ sends' = [sends EXCEPT ![id].dropped = response]
    /\ ev' = Event("remote", id, "step", NoRet)
    /\ UNCHANGED <<registered_agents, task_keys, heap, probes, cancels, calls, bg,
                   background_tasks, now>>

\* TaskManager._wait_for_response_and_process: `await send_coro` on a task that
\* is already done, then the processing or the except branch
WaitForResponseAndProcess(id) ==
    /\ WaitUnit(id) \in DOMAIN bg
    /\ bg[WaitUnit(id)] = "ready"
    /\ LET s == sends[id]
       IN CASE s.send_coro = "cancelled" ->
                 \* CancelledError is not an Exception: it leaves the coroutine
                 /\ bg' = [bg EXCEPT ![WaitUnit(id)] = "finished"]
                 /\ ev' = Event("_wait_for_response_and_process", id, "raise",
                                Exception("CancelledError", ""))
                 /\ UNCHANGED <<task_keys, heap, probes, cancels,
                                background_tasks>>
            [] s.send_coro = "failed" ->
                 /\ bg' = [bg EXCEPT ![WaitUnit(id)] = "finished"]
                 /\ heap' = IF HasTask(id)
                            THEN [heap EXCEPT ![id] = update_status(@, "error",
                                     [request_status |-> "error",
                                      message |-> s.response.message], now)]
                            ELSE heap
                 /\ ev' = EventWith("_wait_for_response_and_process", id,
                                    "return", NoRet, s.response)
                 /\ UNCHANGED <<task_keys, probes, cancels, background_tasks>>
            [] OTHER ->
                 LET r == _process_agent_response(s.response, id, s.agent_url,
                                                  s.agent_name, s.message_text)
                 IN /\ task_keys' = r.keys
                    /\ probes' = StillHolding(probes, id, r.replaced)
                    /\ cancels' = StillHolding(cancels, id, r.replaced)
                    /\ heap' = IF r.raised /\ HasTask(id)
                               THEN [heap EXCEPT ![id] = update_status(@, "error",
                                        [request_status |-> "error",
                                         message |-> r.ret.message], now)]
                               ELSE r.heap
                    /\ bg' = [(IF r.poll THEN Spawn({PollUnit(id)}) ELSE bg)
                                EXCEPT ![WaitUnit(id)] = "finished"]
                    /\ background_tasks' =
                          IF r.poll THEN background_tasks \cup {PollUnit(id)}
                          ELSE background_tasks
                    /\ ev' = EventWith("_wait_for_response_and_process", id,
                                       "return", NoRet, s.response)
    /\ sends' = [sends EXCEPT ![id].response = NoReply]
    /\ UNCHANGED <<registered_agents, calls, now>>

\* a done callback that forgets the task but leaves it in the set
DoneCallbackKeepsMember(unit) ==
    /\ unit \in DOMAIN bg
    /\ bg[unit] = "finished"
    /\ bg' = [u \in DOMAIN bg \ {unit} |-> bg[u]]
    /\ ev' = Event("done_callback", unit.id, "step", NoRet)
    /\ UNCHANGED <<registered_agents, task_keys, heap, sends, probes, cancels, calls,
                   background_tasks, now>>

\* bg_task.add_done_callback(self._background_tasks.discard), run by the event
\* loop after the task has finished
DoneCallback(unit) ==
    /\ unit \in DOMAIN bg
    /\ bg[unit] = "finished"
    /\ bg' = [u \in DOMAIN bg \ {unit} |-> bg[u]]
    /\ background_tasks' = background_tasks \ {unit}
    /\ ev' = Event("done_callback", unit.id, "step", NoRet)
    /\ UNCHANGED <<registered_agents, task_keys, heap, sends, probes, cancels, calls,
                   now>>

\* --------------------------------------------------------- get_task_result
\* GetTaskResultEntry without the look-up of the agent
GetTaskResultEntryWithoutAgentCheck(id) ==
    IF ~HasTask(id) THEN "not_found"
    ELSE IF heap[id].status \in FinalStates THEN "final"
    ELSE "probe"

\* TaskManager.get_task_result up to `await client.get_task(request)`:
\* which way the call goes for the gateway id
GetTaskResultEntry(id) ==
    IF ~HasTask(id) THEN "not_found"
    ELSE IF heap[id].status \in FinalStates THEN "final"
    ELSE IF heap[id].agent_url \notin RegisteredUrls THEN "no_agent"
    ELSE "probe"

\* the gateway id sent to the agent whatever the record holds
IdForAgentIsGatewayId(task) == task.task_id

\* id_to_poll = stored_task.agent_task_id or stored_task.task_id
IdForAgent(task) ==
    IF task.agent_task_id # None /\ task.agent_task_id # ""
    THEN task.agent_task_id ELSE task.task_id

NoAgentResult == [message |-> "Agent for this task is no longer registered."]

CallerProbes(id) == {p \in probes : p.id = id /\ p.who = "caller"}

\* get_task_result called by a client of the task manager
GetTaskResult(id) ==
    /\ id \in GatewayIds
    /\ LET way == GetTaskResultEntry(id)
       IN CASE way = "not_found" ->
                 /\ ev' = Event("get_task_result", id, "raise",
                                Exception("ValueError", "Task ID not found: " \o id))
                 /\ UNCHANGED <<heap, probes>>
            [] way = "final" ->
                 /\ ev' = Event("get_task_result", id, "return",
                                model_dump(heap[id]))
                 /\ UNCHANGED <<heap, probes>>
            [] way = "no_agent" ->
                 /\ heap' = [heap EXCEPT ![id] =
                               update_status(@, "error", NoAgentResult, now)]
                 /\ ev' = Event("get_task_result", id, "return",
                                model_dump(heap'[id]))
                 /\ UNCHANGED probes
            [] OTHER ->
                 /\ Cardinality(CallerProbes(id)) < MaxCalls
                 /\ Pending < MaxPending
                 /\ probes' = probes \cup
                       {[id |-> id, obj |-> id, who |-> "caller",
                         id_to_poll |-> IdForAgent(heap[id]),
                         k |-> FreeIndex(CallerProbes(id)),
                         at |-> "get_task", reply |-> NoReply, ret |-> NoRet]}
                 /\ ev' = Event("get_task_result", id, "await", NoRet)
                 /\ UNCHANGED heap
    /\ UNCHANGED <<registered_agents, task_keys, sends, cancels, calls, bg,
                   background_tasks, now>>

\* MergeProbeReply that stores the reply of a success response but keeps the
\* state the record already had
MergeProbeReplyKeepState(task, response) ==
    IF response.shape = "task"
    THEN update_status(task, task.status, format_task_response(response), now)
    ELSE task

\* get_task_result from the reply of client.get_task on: the object the call
\* holds, after the reply has been merged
MergeProbeReply(task, response) ==
    CASE response.shape = "task" ->
           update_status(task, format_task_response(response).state,
                         format_task_response(response), now)
      [] response.shape = "error" ->
           IF NotFoundIn(response.message)
           THEN update_status(task, "running", NoResult, now)
           ELSE update_status(task, "error",
                    [request_status |-> "error",
                     message |-> "Agent Error: " \o response.message
                                 \o " (Code: " \o ToString(response.code)
                                 \o ")"], now)
      [] response.shape = "raise" ->
           update_status(task, "error",
                         [request_status |-> "error",
                          message |-> response.message], now)
      [] OTHER -> task

\* PollAfterResult that goes on sleeping when the record is gone
PollAfterResultIgnoresAbsent(keys, objects, id) ==
    IF id \in SeqRange(keys) /\ objects[id].status \in FinalStates
    THEN "finished"
    ELSE "sleeping"

\* _poll_and_update_task after `await self.get_task_result(...)`: the loop
\* looks the task up again and either stops or sleeps
PollAfterResult(keys, objects, id) ==
    IF id \notin SeqRange(keys) THEN "finished"
    ELSE IF objects[id].status \in FinalStates THEN "finished"
    ELSE "sleeping"

\* the reply to a status probe arrives: get_task_result resumes inside
\* `async with httpx.AsyncClient`. A response is merged into the record the
\* call holds and the value of `return stored_task.model_dump(...)` is
\* computed, still inside the block; the call then awaits the exit of the
\* block and returns that value only afterwards. An exception of
\* client.get_task is on its way to the except branch, which runs after the
\* exit; the polling loop goes on after the exit as well
ProbeReply(p, response) ==
    /\ p \in probes
    /\ p.at = "get_task"
    /\ response \in ProbeReplies
    /\ LET raised == response.shape = "raise"
           merged == IF raised THEN heap
                     ELSE [heap EXCEPT ![p.obj] = MergeProbeReply(@, response)]
       IN /\ probes' = (probes \ {p}) \cup
                       {[p EXCEPT !.at = "exit", !.reply = response,
                                  !.ret = IF p.who = "caller" /\ ~raised
                                          THEN model_dump(merged[p.obj])
                                          ELSE NoRet]}
          /\ heap' = Collect(merged, task_keys, probes', cancels)
          /\ ev' = EventWith(IF p.who = "caller" THEN "get_task_result"
                             ELSE "_poll_and_update_task", p.id, "exit",
                             NoRet, response)
    /\ bg' = IF p.who = "poll" THEN [bg EXCEPT ![PollUnit(p.id)] = "closing"]
             ELSE bg
    /\ UNCHANGED <<registered_agents, task_keys, sends, cancels, calls,
                   background_tasks, now>>

\* the exit of `async with httpx.AsyncClient` in get_task_result is over: the
\* call returns the dump it took inside the block, or the except branch
\* writes the exception that was on its way and returns the record; the
\* polling loop, when the call is the loop's, looks the task up again
GetTaskResultExit(p) ==
    /\ p \in probes
    /\ p.at = "exit"
    /\ probes' = probes \ {p}
    /\ LET raised == p.reply.shape = "raise"
           merged == IF raised
                     THEN [heap EXCEPT ![p.obj] = MergeProbeReply(@, p.reply)]
                     ELSE heap
       IN /\ heap' = Collect(merged, task_keys, probes', cancels)
          /\ IF p.who = "caller"
             THEN /\ ev' = EventWith("get_task_result", p.id, "return",
                                     IF raised THEN model_dump(merged[p.obj])
                                     ELSE p.ret, p.reply)
                  /\ bg' = bg
             ELSE /\ ev' = EventWith("_poll_and_update_task", p.id, "step",
                                     NoRet, p.reply)
                  /\ bg' = [bg EXCEPT ![PollUnit(p.id)] =
                              PollAfterResult(task_keys, merged, p.id)]
    /\ UNCHANGED <<registered_agents, task_keys, sends, cancels, calls,
                   background_tasks, now>>

\* TaskManager._poll_and_update_task: one turn of the loop, from its start or
\* from the end of asyncio.sleep(2) to the next await
PollAndUpdateTask(id) ==
    /\ PollUnit(id) \in DOMAIN bg
    /\ bg[PollUnit(id)] \in {"ready", "sleeping"}
    /\ LET way == GetTaskResultEntry(id)
       IN CASE way \in {"not_found", "final"} ->
                 /\ bg' = [bg EXCEPT ![PollUnit(id)] = "finished"]
                 /\ UNCHANGED <<heap, probes>>
            [] way = "no_agent" ->
                 /\ heap' = [heap EXCEPT ![id] =
                               update_status(@, "error", NoAgentResult, now)]
                 /\ bg' = [bg EXCEPT ![PollUnit(id)] =
                             PollAfterResult(task_keys, heap', id)]
                 /\ UNCHANGED probes
            [] OTHER ->
                 /\ Pending < MaxPending
                 /\ probes' = probes \cup
                       {[id |-> id, obj |-> id, who |-> "poll",
                         id_to_poll |-> IdForAgent(heap[id]), k |-> 0,
                         at |-> "get_task", reply |-> NoReply, ret |-> NoRet]}
                 /\ bg' = [bg EXCEPT ![PollUnit(id)] = "probing"]
                 /\ UNCHANGED heap
    /\ ev' = Event("_poll_and_update_task", id, "step", NoRet)
    /\ UNCHANGED <<registered_agents, task_keys, sends, cancels, calls,
                   background_tasks, now>>

\* ------------------------------------------------------------- cancel_task
\* TaskManager.cancel_task up to `await client.cancel_task(request)`
CancelTask(id) ==
    /\ id \in GatewayIds
    /\ LET way == GetTaskResultEntry(id)
       IN CASE way = "not_found" ->
                 /\ ev' = Event("cancel_task", id, "raise",
                                Exception("ValueError", "Task ID not found: " \o id))
                 /\ UNCHANGED <<heap, cancels>>
            [] way = "final" ->
                 /\ ev' = Event("cancel_task", id, "return", model_dump(heap[id]))
                 /\ UNCHANGED <<heap, cancels>>
            [] way = "no_agent" ->
                 /\ heap' = [heap EXCEPT ![id] = update_status(@, "error",
                               [request_status |-> "error",
                                message |-> "Agent for task " \o id
                                            \o " not found."], now)]
                 /\ ev' = Event("cancel_task", id, "return", model_dump(heap'[id]))
                 /\ UNCHANGED cancels
            [] OTHER ->
                 /\ Cardinality({c \in cancels : c.id = id}) < MaxCalls
                 /\ Pending < MaxPending
                 /\ cancels' = cancels \cup
                       {[id |-> id, obj |-> id,
                         id_to_cancel |-> IdForAgent(heap[id]),
                         k |-> FreeIndex({c \in cancels : c.id = id}),
                         at |-> "cancel_task", reply |-> NoReply]}
                 /\ ev' = Event("cancel_task", id, "await", NoRet)
                 /\ UNCHANGED heap
    /\ UNCHANGED <<registered_agents, task_keys, sends, probes, calls, bg,
                   background_tasks, now>>

\* cancel_task from the reply of client.cancel_task on
MergeCancelReply(task, response) ==
    CASE response.shape = "task" ->
           update_status(task, "cancelled", format_task_response(response), now)
      [] response.shape = "error" ->
           update_status(task, "error",
               [request_status |-> "error",
                message |-> "Agent Error on cancel: " \o response.message
                            \o " (Code: " \o ToString(response.code) \o ")"],
               now)
      [] response.shape = "raise" ->
           update_status(task, "error",
                         [request_status |-> "error",
                          message |-> response.message], now)
      [] OTHER ->
           update_status(task, "error",
                         [request_status |-> "error",
                          message |-> "Unexpected response type on cancel"], now)

\* the reply to client.cancel_task arrives: cancel_task resumes inside
\* `async with httpx.AsyncClient`. A success or error response is merged into
\* the record the call holds; an exception of the client, or the TypeError
\* raised for a response of another type, is on its way to the except
\* branch. Either way the call now awaits the exit of the `async with` block
CancelReply(c, response) ==
    /\ c \in cancels
    /\ c.at = "cancel_task"
    /\ response \in CancelReplies
    /\ cancels' = (cancels \ {c}) \cup
                     {[c EXCEPT !.at = "exit", !.reply = response]}
    /\ heap' = IF response.shape \in {"task", "error"}
               THEN [heap EXCEPT ![c.obj] = MergeCancelReply(@, response)]
               ELSE heap
    /\ ev' = EventWith("cancel_task", c.id, "exit", NoRet, response)
    /\ UNCHANGED <<registered_agents, task_keys, sends, probes, calls, bg,
                   background_tasks, now>>

\* the exit of `async with httpx.AsyncClient` in cancel_task is over: the
\* except branch writes the exception that was on its way, and the call
\* returns the record as it is now
CancelTaskExit(c) ==
    /\ c \in cancels
    /\ c.at = "exit"
    /\ cancels' = cancels \ {c}
    /\ LET merged == IF c.reply.shape \in {"task", "error"} THEN heap
                     ELSE [heap EXCEPT ![c.obj] = MergeCancelReply(@, c.reply)]
       IN /\ heap' = Collect(merged, task_keys, probes, cancels')
          /\ ev' = EventWith("cancel_task", c.id, "return",
                             model_dump(merged[c.obj]), c.reply)
    /\ UNCHANGED <<registered_agents, task_keys, sends, probes, calls, bg,
                   background_tasks, now>>

\* ------------------------------------------------------------------ tools
AttributeErrorText == "'TaskManager' object has no attribute 'send_message_async'"
MissingArgumentText == "TaskManager.get_task_result() missing 1 required positional argument: 'history_length'"

\* send_message tool up to its first await. A URL that is not registered is
\* answered at once. For a registered URL the tool awaits ctx.info when it was
\* given a context (`ctx`); without one it goes straight to the call of
\* task_manager.send_message_async, an attribute TaskManager does not have:
\* the AttributeError is caught by `except Exception` and returned
SendMessageTool(url, text, ctx) ==
    /\ IF url \notin RegisteredUrls
       THEN /\ ev' = Event("tool.send_message", url, "return",
                           [status |-> "error",
                            message |-> "Agent not registered: " \o url])
            /\ UNCHANGED calls
       ELSE IF ctx
       THEN /\ Cardinality(ToolCalls("tool.send_message", url)) < MaxCalls
            /\ Pending < MaxPending
            /\ calls' = calls \cup
                  {[op |-> "tool.send_message", id |-> url,
                    k |-> FreeIndex(ToolCalls("tool.send_message", url)),
                    at |-> "info", ret |-> NoRet]}
            /\ ev' = Event("tool.send_message", url, "await", NoRet)
       ELSE /\ ev' = Event("tool.send_message", url, "return",
                           [status |-> "error", message |-> AttributeErrorText])
            /\ UNCHANGED calls
    /\ UNCHANGED <<registered_agents, task_keys, heap, sends, probes, cancels,
                   bg, background_tasks, now>>

\* ctx.info has returned: the send_message tool evaluates
\* task_manager.send_message_async, the AttributeError takes it to the except
\* branch, and it is suspended on `await ctx.error(...)`
SendMessageToolFails(c) ==
    /\ c \in calls
    /\ c.op = "tool.send_message"
    /\ c.at = "info"
    /\ calls' = (calls \ {c}) \cup
                   {[c EXCEPT !.at = "error",
                              !.ret = [status |-> "error",
                                       message |-> AttributeErrorText]]}
    /\ ev' = Event("tool.send_message", c.id, "await", NoRet)
    /\ UNCHANGED <<registered_agents, task_keys, heap, sends, probes, cancels,
                   bg, background_tasks, now>>

\* ctx.error has returned: the send_message tool returns the error result
\* built from the exception
SendMessageToolReturn(c) ==
    /\ c \in calls
    /\ c.op = "tool.send_message"
    /\ c.at = "error"
    /\ calls' = calls \ {c}
    /\ ev' = Event("tool.send_message", c.id, "return", c.ret)
    /\ UNCHANGED <<registered_agents, task_keys, heap, sends, probes, cancels,
                   bg, background_tasks, now>>

\* get_task_result tool up to its first await: with a context it awaits
\* ctx.info; without one it goes straight to the call of
\* task_manager.get_task_result(task_id), which lacks history_length, an
\* argument without default: the TypeError of the call is caught by
\* `except Exception` and returned
GetTaskResultTool(id, ctx) ==
    /\ IF ctx
       THEN /\ Cardinality(ToolCalls("tool.get_task_result", id)) < MaxCalls
            /\ Pending < MaxPending
            /\ calls' = calls \cup
                  {[op |-> "tool.get_task_result", id |-> id,
                    k |-> FreeIndex(ToolCalls("tool.get_task_result", id)),
                    at |-> "info", ret |-> NoRet]}
            /\ ev' = Event("tool.get_task_result", id, "await", NoRet)
       ELSE /\ ev' = Event("tool.get_task_result", id, "return",
                           [status |-> "error", message |-> MissingArgumentText])
            /\ UNCHANGED calls
    /\ UNCHANGED <<registered_agents, task_keys, heap, sends, probes, cancels,
                   bg, background_tasks, now>>

\* ctx.info has returned: the call of task_manager.get_task_result raises
\* the TypeError and the get_task_result tool returns it as an error result
GetTaskResultToolReturn(c) ==
    /\ c \in calls
    /\ c.op = "tool.get_task_result"
    /\ c.at = "info"
    /\ calls' = calls \ {c}
    /\ ev' = Event("tool.get_task_result", c.id, "return",
                   [status |-> "error", message |-> MissingArgumentText])
    /\ UNCHANGED <<registered_agents, task_keys, heap, sends, probes, cancels,
                   bg, background_tasks, now>>

\* ------------------------------------------------------------ specification
\* the calls of the task manager and of the directory tools on one task, at
\* one instant of the clock, for registrations that succeed
Next ==
    \/ \E url \in AgentUrls : RegisterAgent(url, TRUE)
    \/ \E c \in calls : RegisterAgentReturn(c)
    \/ \E url \in AgentUrls : UnregisterAgent(url)
    \/ \E c \in calls : UnregisterAgentReturn(c)
    \/ \E url \in AgentUrls, text \in MessageTexts : SendMessage(url, text)
    \/ \E id \in GatewayIds, r \in SendReplies : SendReply(id, r)
    \/ \E id \in GatewayIds, r \in {NoReply} \cup SendReplies :
          SendTimeout(id, r)
    \/ \E id \in GatewayIds : SendMessageExit(id)
    \/ \E id \in GatewayIds, r \in LateReplies : RemoteLateReply(id, r)
    \/ \E id \in GatewayIds : WaitForResponseAndProcess(id)
    \/ \E u \in DOMAIN bg : DoneCallback(u)
    \/ \E id \in GatewayIds : GetTaskResult(id)
    \/ \E p \in probes, r \in ProbeReplies : ProbeReply(p, r)
    \/ \E p \in probes : GetTaskResultExit(p)
    \/ \E id \in GatewayIds : PollAndUpdateTask(id)
    \/ \E id \in GatewayIds : CancelTask(id)
    \/ \E c \in cancels, r \in CancelReplies : CancelReply(c, r)
    \/ \E c \in cancels : CancelTaskExit(c)

Spec == Init /\ [][Next]_vars

\* what the send has finished with when wait_for raises TimeoutError all the
\* same, in the runs with a clock: one reply for each way the continuation
\* goes (a Task, which _process_agent_response merges into the pending
\* record and for which it creates the polling loop, and a failure, which
\* takes the continuation to its except branch)
ClockRaceReplies ==
    { TaskReply("", "completed", TRUE, <<TextPart("fin")>>),
      RaiseReply("connect failed") }

\* the same calls while the clock advances
ClockNext ==
    \/ Tick
    \/ \E url \in AgentUrls : RegisterAgent(url, TRUE)
    \/ \E c \in calls : RegisterAgentReturn(c)
    \/ \E url \in AgentUrls : UnregisterAgent(url)
    \/ \E c \in calls : UnregisterAgentReturn(c)
    \/ \E url \in AgentUrls, text \in MessageTexts : SendMessage(url, text)
    \/ \E id \in GatewayIds, r \in SendReplies : SendReply(id, r)
    \/ \E id \in GatewayIds, r \in {NoReply} \cup ClockRaceReplies :
          SendTimeout(id, r)
    \/ \E id \in GatewayIds : SendMessageExit(id)
    \/ \E id \in GatewayIds, r \in LateReplies : RemoteLateReply(id, r)
    \/ \E id \in GatewayIds : WaitForResponseAndProcess(id)
    \/ \E u \in DOMAIN bg : DoneCallback(u)
    \/ \E id \in GatewayIds : GetTaskResult(id)
    \/ \E p \in probes, r \in ProbeReplies : ProbeReply(p, r)
    \/ \E p \in probes : GetTaskResultExit(p)
    \/ \E id \in GatewayIds : PollAndUpdateTask(id)
    \/ \E id \in GatewayIds : CancelTask(id)
    \/ \E c \in cancels, r \in CancelReplies : CancelReply(c, r)
    \/ \E c \in cancels : CancelTaskExit(c)

ClockSpec == Init /\ [][ClockNext]_vars

\* the tools that stand in front of the task manager, and the calls they
\* stand in front of, for sends that are answered before the timeout
ToolNext ==
    \/ \E url \in AgentUrls : RegisterAgent(url, TRUE)
    \/ \E c \in calls : RegisterAgentReturn(c)
    \/ \E url \in AgentUrls : UnregisterAgent(url)
    \/ \E c \in calls : UnregisterAgentReturn(c)
    \/ \E url \in AgentUrls, text \in MessageTexts : SendMessage(url, text)
    \/ \E id \in GatewayIds, r \in SendReplies : SendReply(id, r)
    \/ \E id \in GatewayIds : SendMessageExit(id)
    \/ \E id \in GatewayIds : GetTaskResult(id)
    \/ \E p \in probes, r \in ProbeReplies : ProbeReply(p, r)
    \/ \E p \in probes : GetTaskResultExit(p)
    \/ \E id \in GatewayIds : CancelTask(id)
    \/ \E c \in cancels, r \in CancelReplies : CancelReply(c, r)
    \/ \E c \in cancels : CancelTaskExit(c)
    \/ \E url \in AgentUrls, text \in MessageTexts, ctx \in BOOLEAN :
          SendMessageTool(url, text, ctx)
    \/ \E c \in calls : SendMessageToolFails(c)
    \/ \E c \in calls : SendMessageToolReturn(c)
    \/ \E id \in GatewayIds, ctx \in BOOLEAN : GetTaskResultTool(id, ctx)
    \/ \E c \in calls : GetTaskResultToolReturn(c)

ToolSpec == Init /\ [][ToolNext]_vars

\* several send_message calls, each answered or timed out
SendIds == {Uuid4(n) : n \in 1..MaxSends}

SendNext ==
    \/ \E url \in AgentUrls, ok \in BOOLEAN : RegisterAgent(url, ok)
    \/ \E c \in calls : RegisterAgentReturn(c)
    \/ \E url \in AgentUrls : UnregisterAgent(url)
    \/ \E c \in calls : UnregisterAgentReturn(c)
    \/ \E url \in AgentUrls, text \in MessageTexts :
          SendMessageUpTo(MaxSends, url, text)
    \/ \E id \in SendIds, r \in SendReplies : SendReply(id, r)
    \/ \E id \in SendIds, r \in {NoReply} \cup SendReplies : SendTimeout(id, r)
    \/ \E id \in SendIds : SendMessageExit(id)

SendSpec == Init /\ [][SendNext]_vars

\* ------------------------------------------------------ send_message_stream
\* events of client.send_message_streaming: a TaskStatusUpdateEvent with its
\* status (state, message parts), or an event of another type
StatusUpdateEvent(state, has_message, parts) ==
    [TaskReply("", state, has_message, parts) EXCEPT !.shape = "status"]
ArtifactUpdateEvent == [OtherReply EXCEPT !.shape = "artifact"]
StreamEvents ==
    { StatusUpdateEvent("working", TRUE, <<TextPart("par"), DataPart>>),
      StatusUpdateEvent("working", FALSE, <<>>),
      StatusUpdateEvent("completed", TRUE, <<TextPart("fin"), TextPart("end")>>),
      ArtifactUpdateEvent }

\* "".join(streamed_content)
RECURSIVE JoinStreamed(_)
JoinStreamed(texts) ==
    IF texts = <<>> THEN "" ELSE Head(texts) \o JoinStreamed(Tail(texts))

\* the texts of the TextParts of a message, in order
TextsOf(parts) ==
    LET kept == SelectSeq(parts, LAMBDA part : part.is_text)
    IN [i \in 1..Len(kept) |-> kept[i].text]

\* send_message_stream up to the first event of the agent: the error event
\* for an unregistered agent, otherwise the record stored as streaming
SendMessageStream(url, text) ==
    /\ IF url \notin RegisteredUrls
       THEN /\ ev' = Event("send_message_stream", None, "return",
                           [status |-> "error",
                            message |-> "Agent not registered: " \o url])
            /\ UNCHANGED <<sends, task_keys, heap>>
       ELSE /\ Cardinality(DOMAIN sends) < MaxTasks
            /\ Pending < MaxPending
            /\ LET id == Uuid4(Cardinality(DOMAIN sends) + 1)
               IN /\ sends' = (id :> [agent_url |-> url,
                                      agent_name |-> get_agent(url).name,
                                      message_text |-> text,
                                      pc |-> "stream",
                                      send_coro |-> "stream",
                                      response |-> NoReply,
                                      dropped |-> NoReply,
                                      streamed |-> <<>>,
                                      event |-> NoReply,
                                      events |-> 0]) @@ sends
                  /\ task_keys' = Append(task_keys, id)
                  /\ heap' = (id :> StoredTask(id, None, url,
                                               get_agent(url).name, text,
                                               "streaming", NoResult, now))
                             @@ heap
                  /\ ev' = Event("send_message_stream", id, "await", NoRet)
    /\ UNCHANGED <<registered_agents, probes, cancels, calls, bg, background_tasks,
                   now>>

\* one event of the stream arrives and is yielded to the consumer: the
\* generator is suspended at `yield event.model_dump(mode="json")`
StreamEvent(id, event) ==
    /\ id \in DOMAIN sends
    /\ sends[id].pc = "stream"
    /\ sends[id].events < MaxEvents
    /\ event \in StreamEvents
    /\ sends' = [sends EXCEPT ![id].pc = "yielded",
                              ![id].events = @ + 1,
                              ![id].event = event]
    /\ ev' = EventWith("send_message_stream", id, "yield", NoRet, event)
    /\ UNCHANGED <<registered_agents, task_keys, heap, probes, cancels, calls, bg,
                   background_tasks, now>>

\* the consumer asks for the next event: the generator resumes after the
\* yield, a status update becomes final_task_status and adds its texts to
\* streamed_content, and the generator waits for the stream again
StreamResumed(id) ==
    /\ id \in DOMAIN sends
    /\ sends[id].pc = "yielded"
    /\ LET event == sends[id].event
       IN sends' = [sends EXCEPT
                      ![id].pc = "stream",
                      ![id].event = NoReply,
                      ![id].response = IF event.shape = "status" THEN event
                                       ELSE @,
                      ![id].streamed =
                          IF event.shape = "status" /\ event.has_message
                                                    /\ event.parts # <<>>
                          THEN @ \o TextsOf(event.parts) ELSE @]
    /\ ev' = Event("send_message_stream", id, "next", NoRet)
    /\ UNCHANGED <<registered_agents, task_keys, heap, probes, cancels, calls, bg,
                   background_tasks, now>>

\* client.send_message_streaming is exhausted (ok) or raises: the generator
\* leaves the `async for` and awaits the exit of `async with
\* httpx.AsyncClient`, an exception being on its way to the except branch
StreamOver(id, ok) ==
    /\ id \in DOMAIN sends
    /\ sends[id].pc = "stream"
    /\ sends' = [sends EXCEPT ![id].pc = IF ok THEN "exit" ELSE "exit_raise"]
    /\ ev' = Event("send_message_stream", id, "exit", NoRet)
    /\ UNCHANGED <<registered_agents, task_keys, heap, probes, cancels, calls, bg,
                   background_tasks, now>>

\* after the exit of the block of a stream that ended normally: the record
\* the generator holds is completed with the payload built from
\* final_task_status and streamed_content, and the generator returns
StreamEnd(id) ==
    /\ id \in DOMAIN sends
    /\ sends[id].pc = "exit"
    /\ sends' = [sends EXCEPT ![id].pc = "ended"]
    /\ LET final == sends[id].response
           joined == JoinStreamed(sends[id].streamed)
           payload ==
               IF final # NoReply
               THEN [request_status |-> "success",
                     state |-> final.state,
                     message |-> IF final.has_message /\ final.parts # <<>>
                                 THEN JoinText(final.parts) ELSE joined,
                     artifacts |-> <<>>]
               ELSE [request_status |-> "success", message |-> joined]
       IN /\ heap' = IF id \in DOMAIN heap
                     THEN [heap EXCEPT ![id] =
                             update_status(@, "completed", payload, now)]
                     ELSE heap
          /\ ev' = Event("send_message_stream", id, "return", payload)
    /\ UNCHANGED <<registered_agents, task_keys, probes, cancels, calls, bg,
                   background_tasks, now>>

\* after the exit of the block of a stream that raised: the except branch
\* sets the record to error and yields an error event
StreamRaise(id) ==
    /\ id \in DOMAIN sends
    /\ sends[id].pc = "exit_raise"
    /\ sends' = [sends EXCEPT ![id].pc = "failed"]
    /\ heap' = IF id \in DOMAIN heap
               THEN [heap EXCEPT ![id] =
                       update_status(@, "error", [message |-> "read failed"],
                                     now)]
               ELSE heap
    /\ ev' = Event("send_message_stream", id, "raise",
                   [status |-> "error", message |-> "read failed",
                    task_id |-> id])
    /\ UNCHANGED <<registered_agents, task_keys, probes, cancels, calls, bg,
                   background_tasks, now>>

\* the consumer stops iterating: the generator is closed at its yield, and
\* GeneratorExit is not an Exception
StreamClosed(id) ==
    /\ id \in DOMAIN sends
    /\ sends[id].pc = "yielded"
    /\ sends' = [sends EXCEPT ![id].pc = "closed"]
    /\ ev' = Event("send_message_stream", id, "close", NoRet)
    /\ UNCHANGED <<registered_agents, task_keys, heap, probes, cancels, calls, bg,
                   background_tasks, now>>

\* a stream, and the calls that may run while it is open, at one instant of
\* the clock
StreamNext ==
    \/ \E url \in AgentUrls, ok \in BOOLEAN : RegisterAgent(url, ok)
    \/ \E c \in calls : RegisterAgentReturn(c)
    \/ \E url \in AgentUrls : UnregisterAgent(url)
    \/ \E c \in calls : UnregisterAgentReturn(c)
    \/ \E url \in AgentUrls, text \in MessageTexts : SendMessageStream(url, text)
    \/ \E id \in GatewayIds, e \in StreamEvents : StreamEvent(id, e)
    \/ \E id \in GatewayIds : StreamResumed(id)
    \/ \E id \in GatewayIds, ok \in BOOLEAN : StreamOver(id, ok)
    \/ \E id \in GatewayIds : StreamEnd(id)
    \/ \E id \in GatewayIds : StreamRaise(id)
    \/ \E id \in GatewayIds : StreamClosed(id)
    \/ \E id \in GatewayIds : GetTaskResult(id)
    \/ \E p \in probes, r \in ProbeReplies : ProbeReply(p, r)
    \/ \E p \in probes : GetTaskResultExit(p)
    \/ \E id \in GatewayIds : CancelTask(id)
    \/ \E c \in cancels, r \in CancelReplies : CancelReply(c, r)
    \/ \E c \in cancels : CancelTaskExit(c)

StreamSpec == Init /\ [][StreamNext]_vars

\* ------------------------------------------------ persistence and listing
\* The directory and the table that main() loads from the two data files
\* before the server starts, and the tools that work on them synchronously.
DirectoryUrls == {"http://a", "http://b"}
StoredId(n) == "t" \o ToString(n)
StoredIds == {StoredId(n) : n \in 1..MaxStored}
StoredTimes == {-2, -1}                \* timestamps written by an earlier run
StoredStatuses == {"pending", "completed"}

\* the sequences without repetition over a set: the orders of a JSON object
Perms(S) ==
    {q \in UNION {[1..n -> S] : n \in 0..Cardinality(S)} :
        \A i, j \in DOMAIN q : i # j => q[i] # q[j]}

\* a record an earlier run stored and never updated afterwards
StoredRecord(id, url, status, t) ==
    StoredTask(id, None, url, CardName(url), "hi", status,
               IF status = "completed"
               THEN [request_status |-> "success", message |-> "hello"]
               ELSE NoResult, t)

\* datetime parsed back from its serialised form
ParseIso(str) == CHOOSE t \in StoredTimes \cup (0..MaxTime) : IsoFormat(t) = str

\* StoredTask.model_validate(task_data)
model_validate(data) ==
    [data EXCEPT !.created_at = ParseIso(@), !.updated_at = ParseIso(@)]

\* contents of the tasks file: entries in file order; `valid` is whether
\* model_validate accepts the entry, drawn from `flags`
TaskFilesOf(flags) ==
    UNION {{[i \in 1..Len(ks) |->
               [task_id |-> ks[i],
                data |-> model_dump(StoredRecord(ks[i], f[i].agent_url,
                                                 f[i].status, f[i].updated_at)),
                valid |-> f[i].valid]] :
            f \in [1..Len(ks) -> [agent_url : DirectoryUrls,
                                  status : StoredStatuses,
                                  updated_at : StoredTimes,
                                  valid : flags]]} :
           ks \in Perms(StoredIds)}

\* contents of the agents file
AgentFilesOf(flags) ==
    UNION {{[i \in 1..Len(us) |-> [url |-> us[i], valid |-> v[i]]] :
            v \in [1..Len(us) -> flags]} :
           us \in Perms(DirectoryUrls)}

\* the files an earlier run wrote with save_all_data: every entry validates
SavedTaskFiles == TaskFilesOf({TRUE})
SavedAgentFiles == AgentFilesOf({TRUE})

\* AgentManager.load_agents_from_data(data) on the directory `agents`
RECURSIVE load_agents_from_data(_, _)
load_agents_from_data(data, agents) ==
    IF data = <<>> THEN agents
    ELSE LET e == Head(data)
             info == [url |-> e.url, name |-> CardName(e.url)]
             known == \E i \in 1..Len(agents) : agents[i].url = e.url
         IN load_agents_from_data(Tail(data),
               IF ~e.valid THEN agents
               ELSE IF known
               THEN [i \in 1..Len(agents) |->
                       IF agents[i].url = e.url THEN info ELSE agents[i]]
               ELSE Append(agents, info))

\* TaskManager.load_tasks_from_data(data) on the table (keys, objects)
RECURSIVE load_tasks_from_data(_, _, _)
load_tasks_from_data(data, keys, objects) ==
    IF data = <<>> THEN [keys |-> keys, heap |-> objects]
    ELSE LET e == Head(data)
         IN IF ~e.valid THEN load_tasks_from_data(Tail(data), keys, objects)
            ELSE load_tasks_from_data(Tail(data),
                    IF e.task_id \in SeqRange(keys) THEN keys
                    ELSE Append(keys, e.task_id),
                    (e.task_id :> model_validate(e.data)) @@ objects)

\* contents of a data file: absent, bytes that are not UTF-8 text, text that
\* json.load rejects, or a JSON document; a document is an object (its
\* members in file order) or an array
JsonObject(members) == [type |-> "dict", items |-> members]
JsonArray(elements) == [type |-> "list", items |-> elements]
MissingFile == [kind |-> "missing", value |-> JsonObject(<<>>)]
UndecodableFile == [kind |-> "not_json", value |-> JsonObject(<<>>)]
NotUtf8File == [kind |-> "not_utf8", value |-> JsonObject(<<>>)]
JsonFile(value) == [kind |-> "json", value |-> value]
UnreadableFiles ==
    {MissingFile, UndecodableFile, NotUtf8File, JsonFile(JsonArray(<<>>)),
     JsonFile(JsonArray(<<1>>))}
FileKind(file) ==
    IF file.kind # "json" THEN file.kind
    ELSE IF file.value.type = "dict" THEN "object" ELSE "not_object"

\* how a write of a file goes: open() and json.dump succeed; open() raises
\* IOError (no such directory, no permission); json.dump raises IOError after
\* open() has truncated the file (no space left)
WriteOutcomes == {"written", "open_fails", "write_fails"}

\* save_to_json(data, file_path), where file is what file_path held before:
\* the file the call leaves. An IOError is logged and swallowed
save_to_json(data, file, outcome) ==
    CASE outcome = "written" -> JsonFile(JsonObject(data))
      [] outcome = "open_fails" -> file
      [] OTHER -> UndecodableFile

\* an exception that leaves load_from_json
Raised(type) == [type |-> "raise", items |-> <<>>, exception |-> type]

\* load_from_json(file_path): the parsed document, {} for FileNotFoundError
\* and JSONDecodeError; the UnicodeDecodeError of a file that is not UTF-8
\* text is not caught
load_from_json(file) ==
    IF file.kind \in {"missing", "not_json"} THEN JsonObject(<<>>)
    ELSE IF file.kind = "not_utf8" THEN Raised("UnicodeDecodeError")
    ELSE file.value

\* TaskManager.get_tasks_for_saving()
get_tasks_for_saving ==
    [i \in 1..Len(task_keys) |->
        [task_id |-> task_keys[i], data |-> model_dump(heap[task_keys[i]]),
         valid |-> TRUE]]

\* load_all_data(): the agents file, then the tasks file. An exception of
\* load_from_json leaves load_all_data; a non-empty document is handed to the
\* manager, whose data.items() raises AttributeError on a document that is
\* not an object. What was loaded before an exception stays loaded
LoadAllData(agent_file, task_file) ==
    LET agent_data == load_from_json(agent_file)
        task_data == load_from_json(task_file)
        NotADict(data) == data.items # <<>> /\ data.type # "dict"
        agents_raise == agent_data.type = "raise" \/ NotADict(agent_data)
        tasks_raise == task_data.type = "raise" \/ NotADict(task_data)
        failed == IF agents_raise THEN agent_data ELSE task_data
        files == [shape |-> "files", agents |-> FileKind(agent_file),
                  tasks |-> FileKind(task_file)]
    IN /\ registered_agents' =
             IF agent_data.items # <<>> /\ ~agents_raise
             THEN load_agents_from_data(agent_data.items, registered_agents)
             ELSE registered_agents
       /\ LET loaded == IF task_data.items # <<>> /\ ~agents_raise
                                                  /\ ~tasks_raise
                        THEN load_tasks_from_data(task_data.items, task_keys,
                                                  heap)
                        ELSE [keys |-> task_keys, heap |-> heap]
          IN /\ task_keys' = loaded.keys
             /\ heap' = loaded.heap
       /\ ev' = IF agents_raise \/ tasks_raise
                THEN EventWith("load_all_data", None, "raise",
                               IF failed.type = "raise"
                               THEN Exception(failed.exception,
                                        "'utf-8' codec can't decode byte 0xff in position 0: invalid start byte")
                               ELSE Exception("AttributeError",
                                        "'list' object has no attribute 'items'"),
                               files)
                ELSE EventWith("load_all_data", None, "return", NoRet, files)
       /\ UNCHANGED <<sends, probes, cancels, calls, bg, background_tasks, now>>

\* main_async: load_all_data() is called once, before the server takes its
\* first request, on the files an earlier run left in a new data directory:
\* each holds what save_all_data wrote, if its write went through
StartUp ==
    /\ ev.op = "init"
    /\ \E a \in SavedAgentFiles, t \in SavedTaskFiles,
          wa \in WriteOutcomes, wt \in WriteOutcomes :
          LoadAllData(save_to_json(a, MissingFile, wa),
                      save_to_json(t, MissingFile, wt))

\* task objects some of whose members model_validate rejects
PartlyValidTaskFiles ==
    UNION {{[i \in 1..Len(ks) |->
               [task_id |-> ks[i],
                data |-> model_dump(StoredRecord(ks[i], "http://a",
                                                 f[i].status, -1)),
                valid |-> f[i].valid]] :
            f \in [1..Len(ks) -> [status : StoredStatuses, valid : BOOLEAN]]} :
           ks \in Perms(StoredIds)}

\* start-up on whatever the data directory holds
StartUpOnAnyFiles ==
    /\ ev.op = "init"
    /\ \E a \in UnreadableFiles
                 \cup {JsonFile(JsonObject(d)) : d \in AgentFilesOf(BOOLEAN)},
          t \in UnreadableFiles
                 \cup {JsonFile(JsonObject(d)) : d \in PartlyValidTaskFiles} :
          LoadAllData(a, t)

\* list.sort(key=lambda t: t.updated_at, reverse=reverse): a stable sort, and
\* with reverse=True equal elements keep their original order as well
RECURSIVE InsertSorted(_, _, _)
InsertSorted(t, sorted, reverse) ==
    IF sorted = <<>> THEN <<t>>
    ELSE IF (IF reverse THEN Head(sorted).updated_at >= t.updated_at
             ELSE Head(sorted).updated_at <= t.updated_at)
         THEN <<Head(sorted)>> \o InsertSorted(t, Tail(sorted), reverse)
         ELSE <<t>> \o sorted

RECURSIVE SortByUpdatedAt(_, _)
SortByUpdatedAt(list, reverse) ==
    IF list = <<>> THEN <<>>
    ELSE InsertSorted(list[Len(list)],
                      SortByUpdatedAt(SubSeq(list, 1, Len(list) - 1), reverse),
                      reverse)

\* list[:number], where a negative number counts from the end
Slice(list, number) ==
    SubSeq(list, 1,
           IF number >= 0
           THEN (IF number < Len(list) THEN number ELSE Len(list))
           ELSE (IF Len(list) + number > 0 THEN Len(list) + number ELSE 0))

\* TaskManager.get_task_list(status, sort, number)
get_task_list(status, sort, number) ==
    LET values == [i \in 1..Len(task_keys) |-> heap[task_keys[i]]]
        filtered == IF status # "all"
                    THEN SelectSeq(values, LAMBDA t : t.status = status)
                    ELSE values
    IN Slice(SortByUpdatedAt(filtered, sort = "Descending"), number)

ListStatuses == {"all", "completed", "pending"}
ListSorts == {"Descending", "Ascending"}
ListNumbers == (-1)..MaxStored

NoTasksFound == [status |-> "empty", message |-> "No tasks found"]

\* get_task_list tool
GetTaskListTool(status, sort, number) ==
    /\ LET list == get_task_list(status, sort, number)
           task_list == [i \in 1..Len(list) |-> model_dump(list[i])]
       IN ev' = EventWith("tool.get_task_list", None, "return",
                          IF task_list # <<>> THEN task_list
                          ELSE <<NoTasksFound>>,
                          [shape |-> "call", status |-> status, sort |-> sort,
                           number |-> number])
    /\ UNCHANGED <<registered_agents, task_keys, heap, sends, probes, cancels, calls,
                   bg, background_tasks, now>>

\* list_agents tool: one {"url", "card"} dictionary per directory entry, and
\* the dictionary {"url": "", "card": {}} when the directory is empty
ListAgentsTool ==
    /\ LET pairs == list_agents_with_url
           agent_list == [i \in 1..Len(pairs) |->
                            [url |-> pairs[i][1],
                             card |-> [name |-> pairs[i][2].card]]]
       IN ev' = Event("tool.list_agents", None, "return",
                      IF agent_list = <<>>
                      THEN <<[url |-> "", card |-> <<>>]>>
                      ELSE agent_list)
    /\ UNCHANGED <<registered_agents, task_keys, heap, sends, probes, cancels, calls,
                   bg, background_tasks, now>>

\* the directory tools on a loaded directory and table
StoreNext ==
    \/ StartUp
    \/ ListAgentsTool
    \/ \E url \in DirectoryUrls, ok \in BOOLEAN : RegisterAgent(url, ok)
    \/ \E c \in calls : RegisterAgentReturn(c)
    \/ \E url \in DirectoryUrls : UnregisterAgent(url)
    \/ \E c \in calls : UnregisterAgentReturn(c)
    \/ \E url \in DirectoryUrls, text \in MessageTexts, ctx \in BOOLEAN :
          SendMessageTool(url, text, ctx)
    \/ \E c \in calls : SendMessageToolFails(c)
    \/ \E c \in calls : SendMessageToolReturn(c)
    \/ \E id \in StoredIds, ctx \in BOOLEAN : GetTaskResultTool(id, ctx)
    \/ \E c \in calls : GetTaskResultToolReturn(c)

StoreSpec == Init /\ [][StoreNext]_vars

\* unregister_agent on a loaded directory and table while a send is in flight
UnregisterNext ==
    \/ StartUp
    \/ \E url \in DirectoryUrls : RegisterAgent(url, TRUE)
    \/ \E c \in calls : RegisterAgentReturn(c)
    \/ \E url \in DirectoryUrls : UnregisterAgent(url)
    \/ \E c \in calls : UnregisterAgentReturn(c)
    \/ \E url \in AgentUrls, text \in MessageTexts : SendMessage(url, text)
    \/ \E id \in GatewayIds, r \in SendReplies : SendReply(id, r)
    \/ \E id \in GatewayIds : SendMessageExit(id)

UnregisterSpec == Init /\ [][UnregisterNext]_vars

\* the listing tool on a loaded table
ListNext ==
    \/ StartUp
    \/ \E st \in ListStatuses, so \in ListSorts, n \in ListNumbers :
          GetTaskListTool(st, so, n)

ListSpec == Init /\ [][ListNext]_vars

\* start-up on arbitrary files, and the listing of the directory it loaded
LoadNext ==
    \/ StartUpOnAnyFiles
    \/ ListAgentsTool

LoadSpec == Init /\ [][LoadNext]_vars

\* ================================================================ claims
TerminalStates == {"completed", "error", "cancelled"}
ClosedStateSet ==
    {"pending", "running", "streaming", "completed", "error", "cancelled"}

\* C1: once the stored state of a task is completed, error or cancelled, no
\* later step changes the state or the result of the record stored under its
\* gateway id.
C1_TerminalIsFinal ==
    [][\A id \in SeqRange(task_keys) \cap SeqRange(task_keys') :
          heap[id].status \in TerminalStates =>
             /\ heap'[id].status = heap[id].status
             /\ heap'[id].result = heap[id].result]_vars

\* C2: when the immediate-response timeout has fired, the send call is not
\* cancelled, and the background continuation that awaits it receives its
\* reply instead of a cancellation.
C2_SendSurvivesTimeout ==
    /\ \A id \in DOMAIN sends : sends[id].send_coro # "cancelled"
    /\ ev.op = "_wait_for_response_and_process" => ev.kind # "raise"

\* C3: when the agent answered the send with message M only after the
\* timeout and the background continuation has run to its end, the record
\* stored under the gateway id is completed with message M.
C3_LateReplyCaptured ==
    \A id \in DOMAIN sends :
       ( /\ sends[id].send_coro = "cancelled"
         /\ sends[id].dropped.shape = "message"
         /\ WaitUnit(id) \notin DOMAIN bg
         /\ HasTask(id) )
       => /\ heap[id].status = "completed"
          /\ heap[id].result = [request_status |-> "success",
                                message |-> "done ok"]

\* C4: a send call that ends in a transport failure or an upstream error
\* makes send_message return (not raise) and leaves a record in state error
\* under the gateway id.
C4_SendFailureIsErrorRecord ==
    (ev.op = "send_message" /\ ev.kind \in {"return", "raise"}
                            /\ ev.arg.shape \in {"raise", "error"})
    => /\ ev.kind = "return"
       /\ HasTask(ev.id)
       /\ heap[ev.id].status = "error"

\* C5: every stored record's endpoint is a registered agent.
C5_NoOrphanRecord ==
    \A id \in SeqRange(task_keys) : heap[id].agent_url \in RegisteredUrls

\* the text of the message replies of SendReplies, written out
ReplyTextOf(response) ==
    IF response = MessageReply(<<TextPart("hello")>>) THEN "hello"
    ELSE IF response = MessageReply(<<TextPart("done"), DataPart, TextPart("ok")>>)
    THEN "done ok"
    ELSE "?"

\* C6: a message reply that arrives before the timeout is stored by
\* send_message, in the step that takes it, under the gateway id as a
\* completed record whose result message is the reply text; the call is then
\* left with the dump of exactly that record to return, and that is what it
\* returns (it does not raise): a completed record with the reply text and
\* the gateway id.
C6_ImmediateMessageCompleted ==
    /\ (ev.op = "send_message" /\ ev.kind = "exit" /\ ev.arg.shape = "message")
       => /\ HasTask(ev.id)
          /\ tasks[ev.id].status = "completed"
          /\ tasks[ev.id].result = [request_status |-> "success",
                                    message |-> ReplyTextOf(ev.arg)]
          /\ sends[ev.id].out = Outcome("return", model_dump(tasks[ev.id]),
                                        ev.arg)
    /\ (ev.op = "send_message" /\ ev.kind \in {"return", "raise"}
                               /\ ev.arg.shape = "message")
       => /\ ev.kind = "return"
          /\ ev.ret.status = "completed"
          /\ ev.ret.result = [request_status |-> "success",
                              message |-> ReplyTextOf(ev.arg)]
          /\ ev.ret.task_id = ev.id

\* a multi-part message reply was returned as "done ok" and is stored as
\* returned
C6_Witness ==
    /\ ev.op = "send_message"
    /\ ev.kind = "return"
    /\ ev.arg = MessageReply(<<TextPart("done"), DataPart, TextPart("ok")>>)
    /\ ev.ret.result.message = "done ok"
    /\ HasTask(ev.id)
    /\ model_dump(tasks[ev.id]) = ev.ret

\* a step in which wait_for hands the outcome of the send call of gateway id
\* `id` to send_message
ResolvesBeforeTimeout(id) ==
    /\ id \in DOMAIN sends
    /\ sends[id].pc = "wait_for"
    /\ ev'.op = "send_message" /\ ev'.id = id /\ ev'.kind = "exit"
    /\ ev'.arg # NoReply

\* C7: whenever the send call resolves before the timeout, whatever the shape
\* of the reply, the step in which send_message takes the reply creates no
\* background unit (continuation or polling loop), and the call returns (it
\* does not raise) a record whose state is terminal or running, creating no
\* background unit either.
C7_NoBackgroundOnFastReply ==
    [][\A id \in GatewayIds :
          /\ ResolvesBeforeTimeout(id)
             => /\ bg' = bg
                /\ background_tasks' = background_tasks
          /\ (id \in DOMAIN sends /\ sends[id].pc = "exit"
                 /\ ~sends[id].timed_out
                 /\ ev'.op = "send_message" /\ ev'.id = id
                 /\ ev'.kind \in {"return", "raise"})
             => /\ ev'.kind = "return"
                /\ ev'.ret.status \in TerminalStates \cup {"running"}
                /\ bg' = bg
                /\ background_tasks' = background_tasks]_vars

\* C8: a reply of unrecognized shape, to the send or to a status probe,
\* leaves a terminal error record under the gateway id and raises nothing.
C8_UnrecognizedShapeIsError ==
    (ev.arg.shape = "other"
       /\ ev.kind \in {"return", "raise", "step"}
       /\ ev.op \in {"send_message", "get_task_result", "_poll_and_update_task"})
    => /\ ev.kind # "raise"
       /\ HasTask(ev.id)
       /\ heap[ev.id].status = "error"

\* C9: the state of every stored record is one of pending, running,
\* streaming, completed, error, cancelled.
C9_StateInClosedSet ==
    \A id \in SeqRange(task_keys) : heap[id].status \in ClosedStateSet

\* C10: get_task_result called on a task whose stored state is terminal
\* returns the stored record as it is, starts no remote call and changes
\* nothing (updated_at included).
C10_TerminalGetIsReadOnly ==
    [][\A id \in GatewayIds :
          ( /\ ev'.op = "get_task_result" /\ ev'.id = id /\ ev'.arg = NoReply
            /\ HasTask(id)
            /\ heap[id].status \in TerminalStates )
          => /\ ev'.kind = "return"
             /\ ev'.ret = model_dump(heap[id])
             /\ UNCHANGED <<registered_agents, task_keys, heap, sends, probes,
                            cancels, calls, bg, background_tasks, now>>]_vars

\* get_task_result returned a completed record whose last update is older
\* than the current clock
C10_Witness ==
    /\ ev.op = "get_task_result"
    /\ ev.kind = "return"
    /\ ev.arg = NoReply
    /\ HasTask(ev.id)
    /\ heap[ev.id].status = "completed"
    /\ heap[ev.id].updated_at < now

\* C11: get_task_result on a stored, non-terminal task whose agent is
\* registered suspends on one status probe for the id the agent knows; when
\* the probe reports a task, the call merges the reported state into the
\* record it holds, in the step that takes the reply, and is left with the
\* dump of that record to return; the snapshot it returns carries the
\* reported state; a call returns without a probe only with a terminal
\* record.
C11_ProbeMergedBeforeReturn ==
    /\ (ev.op = "get_task_result" /\ ev.kind = "await")
       => /\ HasTask(ev.id)
          /\ heap[ev.id].status \notin TerminalStates
          /\ heap[ev.id].agent_url \in RegisteredUrls
          /\ \E p \in probes : /\ p.id = ev.id /\ p.who = "caller"
                                /\ p.at = "get_task"
                                /\ p.obj = ev.id
                                /\ p.id_to_poll = IdForAgent(heap[ev.id])
    /\ (ev.op = "get_task_result" /\ ev.kind = "exit" /\ ev.arg.shape = "task")
       => \E p \in probes : /\ p.id = ev.id /\ p.who = "caller"
                             /\ p.at = "exit"
                             /\ p.reply = ev.arg
                             /\ heap[p.obj].status = ev.arg.state
                             /\ heap[p.obj].result.state = ev.arg.state
                             /\ p.ret = model_dump(heap[p.obj])
    /\ (ev.op = "get_task_result" /\ ev.kind = "return" /\ ev.arg.shape = "task")
       => /\ ev.ret.status = ev.arg.state
          /\ ev.ret.result.state = ev.arg.state
          /\ ev.ret.task_id = ev.id
    /\ (ev.op = "get_task_result" /\ ev.kind = "return" /\ ev.arg = NoReply)
       => ev.ret.status \in TerminalStates

\* a caller's probe reported "completed" for a record that was stored with
\* another state, and the stored record now says completed
C11_Witness ==
    /\ ev.op = "get_task_result"
    /\ ev.kind = "return"
    /\ ev.arg = TaskReply("r1", "completed", TRUE, <<TextPart("fin")>>)
    /\ ev.ret.status = "completed"
    /\ HasTask(ev.id)
    /\ tasks[ev.id].status = "completed"
    /\ tasks[ev.id].result.message = "fin"

\* C12: cancel_task called on a task whose stored state is terminal returns
\* the stored record as it is, starts no remote call and changes nothing.
C12_TerminalCancelIsReadOnly ==
    [][\A id \in GatewayIds :
          ( /\ ev'.op = "cancel_task" /\ ev'.id = id /\ ev'.arg = NoReply
            /\ HasTask(id)
            /\ heap[id].status \in TerminalStates )
          => /\ ev'.kind = "return"
             /\ ev'.ret = model_dump(heap[id])
             /\ UNCHANGED <<registered_agents, task_keys, heap, sends, probes,
                            cancels, calls, bg, background_tasks, now>>]_vars

\* cancel_task returned a record that was cancelled before the clock moved,
\* and no cancel request is in flight
C12_Witness ==
    /\ ev.op = "cancel_task"
    /\ ev.kind = "return"
    /\ ev.arg = NoReply
    /\ HasTask(ev.id)
    /\ heap[ev.id].status = "cancelled"
    /\ heap[ev.id].updated_at < now
    /\ cancels = {}

\* C13: cancel_task on a stored task never raises and always returns a
\* terminal snapshot: cancelled when the agent confirmed the cancel, error
\* when the agent reported an error, the call failed in transport or the
\* reply had an unexpected shape; the record stored under the gateway id has
\* the returned state, never pending or running.
C13_CancelReturnsTerminal ==
    /\ (ev.op = "cancel_task" /\ ev.kind = "return")
       => /\ ev.ret.status \in TerminalStates
          /\ ev.arg.shape = "task" => ev.ret.status = "cancelled"
          /\ ev.arg.shape \in {"error", "raise", "other"}
             => ev.ret.status = "error"
          /\ HasTask(ev.id) => tasks[ev.id].status = ev.ret.status
    /\ (ev.op = "cancel_task" /\ ev.kind = "raise") => ~HasTask(ev.id)

\* the gateway ids of the records stored for an endpoint
RecordsOf(url) == {id \in SeqRange(task_keys) : heap[id].agent_url = url}

\* C14: unregister_agent(E) for a registered endpoint E takes E out of the
\* directory and leaves the other entries in their order, deletes the task
\* records whose endpoint is E and no other record, and is left, while it
\* reports to the client, with a success result whose removed_tasks is the
\* number of records it deleted; that result is what it returns, and its
\* return changes neither the directory nor the table.
C14_UnregisterRemovesExactlyItsTasks ==
    [][\A url \in DirectoryUrls :
          /\ (UnregisterAgent(url) /\ url \in RegisteredUrls)
             => /\ registered_agents' =
                      SelectSeq(registered_agents, LAMBDA a : a.url # url)
                /\ SeqRange(task_keys') = SeqRange(task_keys) \ RecordsOf(url)
                /\ Len(task_keys') = Cardinality(SeqRange(task_keys'))
                /\ \A id \in SeqRange(task_keys') : heap'[id] = heap[id]
                /\ ev'.kind = "await"
                /\ \E c \in calls' \ calls :
                      /\ calls' = calls \cup {c}
                      /\ c.op = "unregister_agent" /\ c.id = url
                      /\ c.ret.status = "success"
                      /\ c.ret.unregistered_agent = CardName(url)
                      /\ c.ret.removed_tasks = Cardinality(RecordsOf(url))
                      /\ c.ret.removed_tasks = Len(task_keys) - Len(task_keys')
          /\ \A c \in ToolCalls("unregister_agent", url) :
                UnregisterAgentReturn(c)
                => /\ ev'.kind = "return"
                   /\ ev'.ret = c.ret
                   /\ UNCHANGED <<registered_agents, task_keys, heap>>]_vars

\* an endpoint was unregistered with one record deleted, and the call
\* returned that count while the record of the other endpoint stays in the
\* table
C14_Witness ==
    /\ ev.op = "unregister_agent"
    /\ ev.kind = "return"
    /\ ev.ret.status = "success"
    /\ ev.ret.removed_tasks = 1
    /\ Len(task_keys) = 1
    /\ heap[task_keys[1]].agent_url # ev.id

\* C15: unregister_agent for a URL that is not in the directory returns the
\* error "Agent not registered" at once and changes neither the directory
\* nor the task table, records stored for that URL included.
C15_UnregisterUnknownChangesNothing ==
    [][\A url \in DirectoryUrls :
          (UnregisterAgent(url) /\ url \notin RegisteredUrls)
          => /\ ev'.kind = "return"
             /\ ev'.ret = [status |-> "error",
                           message |-> "Agent not registered: " \o url]
             /\ UNCHANGED <<registered_agents, task_keys, heap, sends, probes,
                            cancels, calls, bg, background_tasks, now>>]_vars

\* unregister_agent answered with the error for a URL that has a record in
\* the table while another endpoint is registered
C15_Witness ==
    /\ ev.op = "unregister_agent"
    /\ ev.kind = "return"
    /\ ev.ret.status = "error"
    /\ RecordsOf(ev.id) # {}
    /\ registered_agents # <<>>

\* C16: a send_message call, of the task manager or of the tool, for a URL
\* that is not in the directory hands the caller the error "Agent not
\* registered" at once (raised by the task manager, returned by the tool),
\* starts no remote call, creates no background unit and leaves the task
\* table as it was, or with one more record, in state error; and no step of
\* the tool, whatever the URL, starts a send, a probe, a cancel request or a
\* background unit, or touches the directory or the task table.
C16_UnregisteredSendChangesNothing ==
    [][/\ \A url \in AgentUrls, text \in MessageTexts :
             ( /\ url \notin RegisteredUrls
               /\ \/ SendMessage(url, text)
                  \/ \E ctx \in BOOLEAN : SendMessageTool(url, text, ctx) )
             => /\ \/ /\ ev'.kind = "raise"
                      /\ ev'.ret = Exception("ValueError",
                                             "Agent not registered: " \o url)
                   \/ /\ ev'.kind = "return"
                      /\ ev'.ret = [status |-> "error",
                                    message |-> "Agent not registered: " \o url]
                /\ UNCHANGED <<sends, probes, cancels, calls>>
                /\ UNCHANGED <<bg, background_tasks>>
                /\ UNCHANGED registered_agents
                /\ \/ UNCHANGED <<task_keys, heap>>
                   \/ \E id \in GatewayIds \ SeqRange(task_keys) :
                         /\ task_keys' = Append(task_keys, id)
                         /\ heap'[id].status = "error"
                         /\ \A other \in SeqRange(task_keys) :
                               heap'[other] = heap[other]
       /\ ev'.op = "tool.send_message"
          => UNCHANGED <<registered_agents, task_keys, heap, sends, probes,
                         cancels, bg, background_tasks>>]_vars

\* the tool refused a send for an unregistered URL while a record is in the
\* table and a send is on record
C16_Witness ==
    /\ ev.op = "tool.send_message"
    /\ ev.kind = "return"
    /\ ev.ret = [status |-> "error",
                 message |-> "Agent not registered: " \o ev.id]
    /\ registered_agents = <<>>
    /\ task_keys # <<>>
    /\ DOMAIN sends # {}

\* C17: a get_task_result or cancel_task step for a gateway id that is not
\* in the task table, through the task manager or through the tool, hands
\* the caller the error "Task ID not found" (raised by the task manager,
\* returned by the tool), starts no remote call and leaves the task table
\* unchanged.
C17_UnknownIdIsTaskNotFound ==
    [][\A id \in GatewayIds :
          ( /\ ~HasTask(id)
            /\ \/ GetTaskResult(id)
               \/ CancelTask(id)
               \/ GetTaskResultTool(id, FALSE)
               \/ \E c \in ToolCalls("tool.get_task_result", id) :
                     GetTaskResultToolReturn(c) )
          => /\ \/ /\ ev'.kind = "raise"
                   /\ ev'.ret = Exception("ValueError",
                                          "Task ID not found: " \o id)
                \/ /\ ev'.kind = "return"
                   /\ ev'.ret = [status |-> "error",
                                 message |-> "Task ID not found: " \o id]
             /\ UNCHANGED <<probes, cancels>>
             /\ UNCHANGED <<task_keys, heap>>]_vars

\* the records of a get_task_list answer: none when the answer is the
\* "No tasks found" placeholder
ListedRecords(ret) == IF ret = <<NoTasksFound>> THEN <<>> ELSE ret

\* C18: the answer of get_task_list(status, sort, number) holds stored
\* records only, each at most once and each with the state asked for (any
\* state for "all"), in descending order of updated_at for Descending and
\* ascending order for Ascending, and never more than number of them (none
\* when number is not positive); the call changes nothing.
C18_TaskListFilteredSortedBounded ==
    [][ev'.op = "tool.get_task_list" =>
          LET a == ev'.arg
              recs == ListedRecords(ev'.ret)
              at(i) == heap[recs[i].task_id].updated_at
          IN /\ \A i \in 1..Len(recs) :
                   /\ recs[i].task_id \in SeqRange(task_keys)
                   /\ recs[i] = model_dump(heap[recs[i].task_id])
                   /\ a.status # "all" => recs[i].status = a.status
             /\ \A i, j \in 1..Len(recs) :
                   i < j => /\ recs[i].task_id # recs[j].task_id
                            /\ a.sort = "Descending" => at(i) >= at(j)
                            /\ a.sort = "Ascending" => at(i) <= at(j)
             /\ Len(recs) <= (IF a.number > 0 THEN a.number ELSE 0)
             /\ UNCHANGED <<registered_agents, task_keys, heap, sends, probes,
                            cancels, calls, bg, background_tasks, now>>]_vars

\* C19: the send_message tool, called for a registered agent, returns the
\* record that the task manager's send_message produced for this request:
\* a task record whose task_id is the gateway id of a send the task manager
\* started.
C19_SendToolReturnsTaskRecord ==
    (ev.op = "tool.send_message" /\ ev.kind = "return"
                                 /\ ev.id \in RegisteredUrls)
    => /\ "task_id" \in DOMAIN ev.ret
       /\ ev.ret.task_id \in DOMAIN sends

\* C20: the get_task_result tool, called with the gateway id of a stored
\* task, returns that task's record with its current state and result.
C20_ResultToolReturnsRecord ==
    (ev.op = "tool.get_task_result" /\ ev.kind = "return" /\ HasTask(ev.id))
    => /\ "task_id" \in DOMAIN ev.ret
       /\ ev.ret.task_id = ev.id
       /\ ev.ret.status = tasks[ev.id].status
       /\ ev.ret.result = tasks[ev.id].result

\* C21: when the fetch of the agent card fails, AgentManager.register_agent
\* raises the failure and leaves the directory as it was (the URL is not
\* added; an entry already registered under it stays, card included), and
\* the register_agent tool, after it has reported the failure to the client,
\* returns it as an error result, without touching the directory.
C21_FailedRegistrationChangesNothing ==
    [][\A url \in DirectoryUrls :
          /\ RegisterAgent(url, FALSE)
             => /\ register_agent(url, FALSE).raised
                /\ register_agent(url, FALSE).agents = registered_agents
                /\ registered_agents' = registered_agents
                /\ ev'.kind = "await"
                /\ \E c \in calls' \ calls :
                      /\ calls' = calls \cup {c}
                      /\ c.op = "register_agent" /\ c.id = url
                      /\ c.ret = [status |-> "error",
                                  message |-> "Fetch failed"]
                /\ UNCHANGED <<task_keys, heap>>
          /\ \A c \in ToolCalls("register_agent", url) :
                (RegisterAgentReturn(c) /\ c.ret.status = "error")
                => /\ ev'.kind = "return"
                   /\ ev'.ret = c.ret
                   /\ UNCHANGED <<registered_agents, task_keys, heap>>]_vars

\* a registration failed for a URL that is registered, the tool returned the
\* error, and the entry is still in the directory, behind the entry of the
\* other URL
C21_Witness ==
    /\ ev.op = "register_agent"
    /\ ev.kind = "return"
    /\ ev.ret.status = "error"
    /\ Len(registered_agents) = 2
    /\ registered_agents[2] = [url |-> ev.id, name |-> CardName(ev.id)]

\* the URLs of a list of (url, AgentInfo) pairs, in its order
UrlsOf(list) == [i \in 1..Len(list) |-> list[i][1]]

\* C22: list_agents_with_url is empty initially; a successful registration
\* of a URL that is not listed appends it, one of a listed URL leaves the
\* order alone, a failed registration changes nothing, unregistering takes
\* the URL out and keeps the order of the rest, and no other operation
\* touches the list: so the list holds each URL registered and not
\* unregistered since exactly once, in the order of first registration.
\* get_agent(u) returns the entry of u exactly when u is in the list, and
\* None otherwise.
C22_DirectoryFollowsRegistrations ==
    /\ list_agents_with_url = <<>>
    /\ [][LET before == UrlsOf(list_agents_with_url)
              after == UrlsOf(list_agents_with_url')
          IN /\ \A u \in DirectoryUrls :
                   /\ RegisterAgent(u, TRUE)
                      => after = IF u \in SeqRange(before) THEN before
                                 ELSE Append(before, u)
                   /\ RegisterAgent(u, FALSE) => after = before
                   /\ UnregisterAgent(u)
                      => after = SelectSeq(before, LAMBDA x : x # u)
                   /\ (get_agent(u)' = [url |-> u, name |-> CardName(u)])
                      <=> u \in SeqRange(after)
                   /\ (get_agent(u)' = [url |-> None, name |-> None])
                      <=> u \notin SeqRange(after)
             /\ ev'.op \notin {"register_agent", "unregister_agent",
                                "load_all_data"}
                => list_agents_with_url' = list_agents_with_url
             /\ \A i, j \in 1..Len(after) : i # j => after[i] # after[j]
             /\ \A i \in 1..Len(after) :
                   list_agents_with_url'[i][2] = [card |-> CardName(after[i])]
         ]_vars

\* the URL listed first was registered again, and it is still listed first
\* of two
C22_Witness ==
    /\ ev.op = "register_agent"
    /\ ev.kind = "return"
    /\ ev.ret.status = "success"
    /\ Len(list_agents_with_url) = 2
    /\ list_agents_with_url[1][1] = ev.id
    /\ get_agent(ev.id).name = CardName(ev.id)

\* C23: the list_agents tool returns one entry per registered agent, in
\* directory order, holding that agent's url and card, and no other entry.
C23_ListAgentsIsTheDirectory ==
    ev.op = "tool.list_agents"
    => /\ Len(ev.ret) = Len(registered_agents)
       /\ \A i \in 1..Len(ev.ret) :
             /\ ev.ret[i].url = registered_agents[i].url
             /\ ev.ret[i].card = [name |-> CardName(registered_agents[i].url)]

\* C24: when load_all_data reads a data file that is missing or whose content
\* is malformed (not UTF-8 text, not JSON, or JSON that is not an object),
\* load_all_data returns without raising and the table of that document is
\* empty.
C24_UnreadableFileLoadsEmpty ==
    ev.op = "load_all_data"
    => /\ ev.kind = "return"
       /\ ev.arg.agents \in {"missing", "not_json", "not_utf8", "not_object"}
          => registered_agents = <<>>
       /\ ev.arg.tasks \in {"missing", "not_json", "not_utf8", "not_object"}
          => task_keys = <<>>

\* the round trip of the table through save_to_json, written as outcome says
\* over file, then load_from_json and load_tasks_from_data into an empty
\* table: the same gateway ids, in the same order, each with the state,
\* result, agent_task_id, endpoint and timestamps of the record that was saved
RestoresTheTable(file, outcome) ==
    LET saved == get_tasks_for_saving
        data == load_from_json(save_to_json(saved, file, outcome))
        restored == load_tasks_from_data(data.items, <<>>, <<>>)
    IN /\ data.type = "dict"
       /\ data.items = saved
       /\ restored.keys = task_keys
       /\ DOMAIN restored.heap = SeqRange(task_keys)
       /\ \A id \in SeqRange(task_keys) :
             /\ restored.heap[id].task_id = id
             /\ restored.heap[id].status = heap[id].status
             /\ restored.heap[id].result = heap[id].result
             /\ restored.heap[id].agent_task_id = heap[id].agent_task_id
             /\ restored.heap[id].agent_url = heap[id].agent_url
             /\ restored.heap[id].created_at = heap[id].created_at
             /\ restored.heap[id].updated_at = heap[id].updated_at

\* C25: load_from_json returns what save_to_json was given, and loading the
\* output of get_tasks_for_saving into an empty table gives the table that
\* was saved (the same gateway ids with the same state, result,
\* agent_task_id, endpoint and timestamps), however the write of the file
\* went.
C25_SaveAlwaysRestores ==
    \A outcome \in WriteOutcomes : RestoresTheTable(MissingFile, outcome)

\* C26: when the reply to a probe of the polling loop reports the task in a
\* final state of the agent (completed, failed, canceled, rejected), the
\* stored record is in a terminal gateway state once the reply is merged, and
\* when the loop goes on after that poll the record is terminal and the loop
\* has stopped.
AgentFinalStates == {"completed", "failed", "canceled", "rejected"}
C26_FinishedTaskStopsPolling ==
    (/\ ev.op = "_poll_and_update_task"
     /\ ev.kind \in {"exit", "step"}
     /\ ev.arg.shape = "task"
     /\ ev.arg.state \in AgentFinalStates)
    => /\ HasTask(ev.id) => heap[ev.id].status \in TerminalStates
       /\ PollUnit(ev.id) \in DOMAIN bg
       /\ ev.kind = "step" => bg[PollUnit(ev.id)] = "finished"

\* C27: a turn of the polling loop that finds the record terminal or absent,
\* at its start or when get_task_result has returned, ends the loop and adds no
\* record to the table; a loop that has ended never runs again; the loop is
\* in the background set exactly until its done callback has run, and the
\* callback runs only after the loop has ended.
C27_PollingLoopStopsOnTerminalOrAbsent ==
    [][\A id \in GatewayIds :
          LET unit == PollUnit(id)
              seenAfter == ~HasTask(id)' \/ heap'[id].status \in TerminalStates
          IN /\ (ev'.op = "_poll_and_update_task" /\ ev'.id = id
                     /\ ev'.kind = "step" /\ seenAfter)
                => /\ bg'[unit] = "finished"
                   /\ task_keys' = task_keys
             /\ (unit \in DOMAIN bg /\ bg[unit] = "finished"
                                     /\ unit \in DOMAIN bg')
                => bg'[unit] = "finished"
             /\ (unit \in DOMAIN bg') <=> (unit \in background_tasks')
             /\ (unit \in background_tasks /\ unit \notin background_tasks')
                => /\ bg[unit] = "finished"
                   /\ ev'.op = "done_callback"]_vars

\* the loop's probe was answered after the record had been removed, and the
\* loop has ended
C27_Witness ==
    /\ ev.op = "_poll_and_update_task"
    /\ ev.kind = "step"
    /\ ev.arg.shape # "none"
    /\ ~HasTask(ev.id)
    /\ bg[PollUnit(ev.id)] = "finished"
    /\ PollUnit(ev.id) \in background_tasks

\* C28: once a Task-shaped reply to a send has arrived, before the timeout
\* (send_message returns it) or after it (the agent answers a send that has
\* timed out), the record holds the id the agent assigned, is in state
\* running, and a polling loop for the gateway id exists.
C28_TaskReplyStartsPolling ==
    LET arrived ==
            IF ev.op = "send_message" /\ ev.kind = "exit" THEN ev.arg
            ELSE IF ev.op = "remote" THEN sends[ev.id].dropped
            ELSE NoReply
    IN arrived.shape = "task"
       => /\ HasTask(ev.id)
          /\ arrived.id # "" => heap[ev.id].agent_task_id = arrived.id
          /\ heap[ev.id].status = "running"
          /\ PollUnit(ev.id) \in DOMAIN bg
          /\ PollUnit(ev.id) \in background_tasks

\* C29: when the probe of a polling loop is answered with an error whose
\* message says the task is not found, the record is set to running with the
\* result it had, and the loop, when it goes on, sleeps unless the record has
\* become terminal; when the probe is answered with any other error, or the
\* call fails, the record is set to error with an error result, and the loop,
\* when it goes on, finds the record in error and ends.
C29_PollingNotFoundIsRetried ==
    [][\A id \in GatewayIds :
          LET polled(kind) == /\ ev'.op = "_poll_and_update_task"
                              /\ ev'.id = id
                              /\ ev'.kind = kind
                              /\ HasTask(id)
              notFound == ev'.arg.message = "Task not found"
          IN /\ (polled("exit") /\ ev'.arg.shape = "error")
                => IF notFound
                   THEN /\ heap'[id].status = "running"
                        /\ heap'[id].result = heap[id].result
                   ELSE /\ heap'[id].status = "error"
                        /\ heap'[id].result.request_status = "error"
             /\ (polled("step") /\ ev'.arg.shape \in {"error", "raise"})
                => IF ev'.arg.shape = "error" /\ notFound
                   THEN heap'[id].status \notin TerminalStates
                        => bg'[PollUnit(id)] = "sleeping"
                   ELSE /\ heap'[id].status = "error"
                        /\ heap'[id].result.request_status = "error"
                        /\ bg'[PollUnit(id)] = "finished"]_vars

\* the id a request for the record stored under `id` puts on the wire
WireId(id) ==
    IF heap[id].agent_task_id \notin {None, ""} THEN heap[id].agent_task_id
    ELSE id

\* the table, the calls and the background work are keyed by gateway ids
KeyedByGatewayIds ==
    /\ \A p \in probes : p.id \in GatewayIds
    /\ \A c \in cancels : c.id \in GatewayIds
    /\ \A k \in SeqRange(task_keys) :
          /\ k \in GatewayIds
          /\ heap[k].task_id = k
          /\ heap[k].agent_task_id \notin {None, "", k}
             => heap[k].agent_task_id \notin SeqRange(task_keys)
    /\ \A u \in DOMAIN bg : u.id \in GatewayIds

\* a request that the step issues names WireId of its record, and a request
\* that the step moves on keeps its name
RequestsNameWireId ==
    /\ \A p \in probes' \ probes :
          IF p.at = "get_task"
          THEN p.id_to_poll = WireId(p.id)
          ELSE \E q \in probes \ probes' :
                  /\ q.id = p.id /\ q.who = p.who
                  /\ q.id_to_poll = p.id_to_poll
    /\ \A c \in cancels' \ cancels :
          IF c.at = "cancel_task"
          THEN c.id_to_cancel = WireId(c.id)
          ELSE \E d \in cancels \ cancels' :
                  /\ d.id = c.id
                  /\ d.id_to_cancel = c.id_to_cancel

\* C30: every status probe and cancel request names, when it is issued, the
\* agent-assigned id of the record if it has one and the gateway id
\* otherwise, and keeps that name until it is answered; the keys of the task
\* table, and the ids that probes, cancel requests and background units are
\* bound to, are gateway ids, and an agent-assigned id is never a key.
C30_AgentIdOnlyOnTheWire ==
    /\ []KeyedByGatewayIds
    /\ [][RequestsNameWireId]_vars

\* a probe and a cancel request for a record with an agent-assigned id are
\* in flight and name that id
C30_Witness ==
    /\ \E p \in probes :
          /\ heap[p.obj].agent_task_id = "r1"
          /\ p.id_to_poll = "r1"
          /\ p.id # "r1"
    /\ \E c \in cancels :
          /\ heap[c.obj].agent_task_id = "r1"
          /\ c.id_to_cancel = "r1"

\* C31: for every gateway id, a step that finds agent_task_id set on the
\* record (in the table or still held by a suspended call) leaves it with the
\* same value.
C31_AgentTaskIdIsNeverReplaced ==
    [][\A id \in DOMAIN heap \cap DOMAIN heap' :
          heap[id].agent_task_id # None
          => heap'[id].agent_task_id = heap[id].agent_task_id]_vars

\* a record whose agent_task_id was set by the send reply has since been
\* updated from the reply to a status probe
C31_Witness ==
    /\ ev.op \in {"get_task_result", "_poll_and_update_task"}
    /\ ev.arg.shape = "task"
    /\ HasTask(ev.id)
    /\ heap[ev.id].agent_task_id = "r1"
    /\ heap[ev.id].status = "completed"

KeyAfter(k) ==
    IF Replaced(k) \in DOMAIN heap' \ DOMAIN heap THEN Replaced(k) ELSE k

\* C33: a step leaves the task_id, agent_url, agent_name, request_message
\* and created_at of every record that exists before and after it (in the
\* table or held by a suspended call) as they were, and changes
\* agent_task_id only when it was not set; and a record that is in the table
\* before and after a step is the same object.
C33_UpdateKeepsIdentityFields ==
    [][/\ \A k \in DOMAIN heap :
             KeyAfter(k) \in DOMAIN heap'
             => /\ heap'[KeyAfter(k)].task_id = heap[k].task_id
                /\ heap'[KeyAfter(k)].agent_url = heap[k].agent_url
                /\ heap'[KeyAfter(k)].agent_name = heap[k].agent_name
                /\ heap'[KeyAfter(k)].request_message = heap[k].request_message
                /\ heap'[KeyAfter(k)].created_at = heap[k].created_at
                /\ heap'[KeyAfter(k)].agent_task_id # heap[k].agent_task_id
                   => heap[k].agent_task_id = None
       /\ \A id \in SeqRange(task_keys) \cap SeqRange(task_keys') :
             KeyAfter(id) = id]_vars

\* the continuation of a send that timed out at time 0 with its Task reply
\* already there has written the agent task id (the gateway id, as the reply
\* carries none), the state and the result into the pending record at time 1
C33_Witness ==
    /\ ev.op = "_wait_for_response_and_process"
    /\ ev.arg.shape = "task"
    /\ HasTask(ev.id)
    /\ heap[ev.id].agent_task_id = ev.id
    /\ heap[ev.id].status = "completed"
    /\ heap[ev.id].result # NoResult
    /\ heap[ev.id].created_at = 0
    /\ heap[ev.id].updated_at = 1

\* C34: every continuation and polling loop that has been created and whose
\* done callback has not run is in _background_tasks, in particular every
\* one that is still running; the set holds nothing else, so a unit whose
\* done callback has run is not a member; and the done callback of every
\* unit that has finished (by return, exception or cancellation) can run.
C34_BackgroundSetTracksUnits ==
    /\ \A u \in DOMAIN bg : u \in background_tasks
    /\ background_tasks \subseteq DOMAIN bg
    /\ \A u \in DOMAIN bg : bg[u] = "finished" => ENABLED DoneCallback(u)

\* the continuation of a timed-out send ended with CancelledError and its
\* done callback has removed it, while nothing else is outstanding
C34_Witness ==
    /\ ev.op = "done_callback"
    /\ sends[ev.id].send_coro = "cancelled"
    /\ WaitUnit(ev.id) \notin background_tasks
    /\ WaitUnit(ev.id) \notin DOMAIN bg

\* what a step does to the record of a send that took the timeout branch:
\* the step of the timeout stores it as pending, without result, and a step
\* that brings it to state error satisfies `mayFail`
TimedOutRecordStep(id, mayFail) ==
    (sends'[id].timed_out /\ HasTask(id)')
    => /\ (id \notin DOMAIN sends \/ ~sends[id].timed_out)
          => /\ ev'.op = "send_message" /\ ev'.kind = "exit"
             /\ heap'[id].status = "pending"
             /\ heap'[id].result = NoResult
       /\ ((~HasTask(id) \/ heap[id].status # "error")
              /\ heap'[id].status = "error") => mayFail

\* the step receives the agent's answer to a probe, to a cancel request or,
\* in the continuation of a timed-out send, to the send, and the answer is an
\* error, a failure of the call or of an unexpected type
RemoteFailureObserved ==
    /\ ev'.op \in {"get_task_result", "_poll_and_update_task", "cancel_task",
                   "_wait_for_response_and_process"}
    /\ ev'.arg.shape \in {"error", "raise", "other"}

\* C35: the record stored when the timeout fires is pending, without
\* result, and it enters state error only in a step that observes an
\* upstream error or a transport failure.
C35_OnlyRemoteFailureMakesError ==
    [][\A id \in DOMAIN sends' :
          TimedOutRecordStep(id, RemoteFailureObserved)]_vars

\* C36: after every step updated_at of every record is at least its
\* created_at; no step lowers updated_at of a record; and a step that changes
\* the state or the result of a record sets its updated_at to the time of
\* the step, which is at least the value it had (the clock does not run
\* backwards, and two readings of it may be equal).
C36_UpdatedAtFollowsMutations ==
    [][/\ \A id \in DOMAIN heap' :
             heap'[id].updated_at >= heap'[id].created_at
       /\ \A id \in DOMAIN heap \cap DOMAIN heap' :
             /\ heap'[id].updated_at >= heap[id].updated_at
             /\ (heap'[id].status # heap[id].status
                    \/ heap'[id].result # heap[id].result)
                => /\ heap'[id].updated_at = now
                   /\ heap'[id].updated_at <= now']_vars

\* a record created at time 0 has had its state and result changed at time 1
C36_Witness ==
    /\ ev.op \in {"get_task_result", "_poll_and_update_task"}
    /\ ev.arg.shape = "error"
    /\ HasTask(ev.id)
    /\ heap[ev.id].status = "error"
    /\ heap[ev.id].created_at = 0
    /\ heap[ev.id].updated_at = 1
    /\ now = 1

\* C37: every record in the table whose state is completed, error or
\* cancelled has a result, and a record without result is pending, running
\* or streaming.
C37_TerminalRecordHasResult ==
    \A k \in SeqRange(task_keys) :
        /\ heap[k].status \in TerminalStates => heap[k].result # NoResult
        /\ heap[k].result = NoResult
           => heap[k].status \in {"pending", "running", "streaming"}

\* a pending record without result was cancelled and holds the agent's reply
C37_Witness ==
    /\ ev.op = "cancel_task"
    /\ ev.arg.shape = "task"
    /\ HasTask(ev.id)
    /\ sends[ev.id].send_coro = "cancelled"
    /\ heap[ev.id].status = "cancelled"
    /\ heap[ev.id].result.state = "canceled"

\* the step creates a polling loop for the gateway id: it processes a
\* Task-shaped reply to the send, in send_message or in the continuation
LoopCreatedFor(id) ==
    /\ ev'.id = id
    /\ \/ /\ ev'.op = "send_message"
          /\ ev'.kind = "exit"
          /\ ev'.arg.shape = "task"
       \/ /\ ev'.op = "_wait_for_response_and_process"
          /\ ev'.kind = "return"
          /\ sends[id].send_coro = "done"
          /\ sends[id].response.shape = "task"
          /\ ev'.arg = sends[id].response

\* C38: a polling loop for a gateway id is created only while no polling
\* loop for that id exists, and a polling loop comes into existence only in
\* a step that processes a Task-shaped reply to the send; so at no time are
\* two loops running for one gateway id.
C38_OnePollingLoopPerTask ==
    [][\A id \in GatewayIds :
          /\ LoopCreatedFor(id) => PollUnit(id) \notin DOMAIN bg
          /\ (PollUnit(id) \notin DOMAIN bg /\ PollUnit(id) \in DOMAIN bg')
             => LoopCreatedFor(id)]_vars

\* the polling loop of a task is probing the agent while a cancel request
\* for the same task is in flight, after the send has returned
C38_Witness ==
    \E id \in GatewayIds :
        /\ PollUnit(id) \in DOMAIN bg
        /\ bg[PollUnit(id)] = "probing"
        /\ sends[id].pc = "returned"
        /\ \E c \in cancels : c.id = id

\* C39: a get_task_result or cancel_task call for a record that is not in a
\* terminal state and whose agent is not registered sends nothing to any
\* agent, sets the record to error with a result that says the agent is
\* missing, and returns that record.
C39_UnregisteredAgentMakesError ==
    [][\A id \in GatewayIds :
          (/\ ev'.op \in {"get_task_result", "cancel_task"}
           /\ ev'.id = id
           /\ ev'.arg.shape = "none"
           /\ HasTask(id)
           /\ heap[id].status \notin TerminalStates
           /\ heap[id].agent_url \notin RegisteredUrls)
          => /\ probes' = probes
             /\ cancels' = cancels
             /\ ev'.kind = "return"
             /\ heap'[id].status = "error"
             /\ heap'[id].result.message
                   \in {"Agent for this task is no longer registered.",
                        "Agent for task " \o id \o " not found."}
             /\ ev'.ret = model_dump(heap'[id])]_vars

\* cancel_task has found the agent of a pending record unregistered
C39_Witness ==
    /\ ev.op = "cancel_task"
    /\ ev.kind = "return"
    /\ ev.arg.shape = "none"
    /\ HasTask(ev.id)
    /\ heap[ev.id].agent_url \notin RegisteredUrls
    /\ heap[ev.id].status = "error"
    /\ heap[ev.id].result.message = "Agent for task " \o ev.id \o " not found."

\* C40: when send_message_stream has stored its record and is about to
\* contact the agent, the record is in state streaming and has no result;
\* when the stream ends normally the record, if still in the table, is
\* completed with the payload of the stream, and when it raises the record
\* is error; and no record whose stream has ended, raised or been closed by
\* its consumer is in state streaming.
C40_StreamEndsTerminal ==
    /\ (ev.op = "send_message_stream" /\ ev.kind = "await")
       => /\ HasTask(ev.id)
          /\ heap[ev.id].status = "streaming"
          /\ heap[ev.id].result = NoResult
          /\ sends[ev.id].events = 0
    /\ (ev.op = "send_message_stream" /\ ev.kind = "return"
                                      /\ HasTask(ev.id))
       => /\ heap[ev.id].status = "completed"
          /\ heap[ev.id].result = ev.ret
    /\ (ev.op = "send_message_stream" /\ ev.kind = "raise" /\ HasTask(ev.id))
       => /\ heap[ev.id].status = "error"
          /\ heap[ev.id].result = [message |-> ev.ret.message]
    /\ \A id \in DOMAIN sends :
          (sends[id].pc \in {"ended", "failed", "closed"} /\ HasTask(id))
          => heap[id].status # "streaming"
====
